---- MODULE Spec2Model ----
(***************************************************************************)
(* Model of MusicApp_main.py: Song comparison by a selectable key, the     *)
(* three search trees (BinarySearchTree, RedBlackTree, AVLTree) and the    *)
(* MusicApp operations that keep a Playlist's five views.                  *)
(*                                                                         *)
(* Python objects live in stores addressed by small integers: Song objects *)
(* in `heap`, tree nodes in the node store of their tree.  A reference is  *)
(* the integer; None is 0.  String values are modelled by their rank in    *)
(* lexicographic order (the empty string "" has rank 0, "A" 1, "B" 2 ...); *)
(* whether a value is a str or an int is decided by the field it is read   *)
(* from (playtime is the only int field).  An operation that raises leaves *)
(* the mutations it made before the raise and reports the exception name.  *)
(***************************************************************************)
EXTENDS Integers, Sequences, FiniteSets, TLC

VARIABLES heap, songs_not_sorted, songs, bst, rbt, avl, total_time, outcome, undo, ninserts,
          saved_file

vars == <<heap, songs_not_sorted, songs, bst, rbt, avl, total_time, outcome, undo, ninserts,
          saved_file>>

None == 0

\* ---------------------------------------------------------------- bounds
\* inserts made in a run of the tree classes
MaxTreeOps == 6
\* distinct titles in a run of the tree classes
NTitles == 3
\* songs added to the playlist in a run of the MusicApp operations
MaxSongs == 2
\* songs generated by one add_random_songs call
MaxCount == 1
\* songs added in a run that also calls the trees of the playlist directly
MaxLibSongs == 3
\* length of the lists handed to the sort methods
MaxSortLen == 4
\* length of the ascending lists handed to the search methods
MaxSearchLen == 7

\* ------------------------------------------------------------------ Song
Keys == {"title", "artist", "album", "genre", "playtime"}

Song(title, artist, album, genre, playtime) ==
    [title |-> title, artist |-> artist, album |-> album, genre |-> genre,
     playtime |-> playtime, key |-> "title"]

\* Song(title, "", "", ""): the probe built for tree search and delete
Probe(title) == Song(title, 0, 0, 0, 0)

\* getattr(self, self.key)
KeyVal(s) == s[s.key]

IsInt(s) == s.key = "playtime"

\* str < int (and int < str) raises TypeError; == between them is False
Comparable(a, b) == IsInt(a) = IsInt(b)

song_lt(a, b) == KeyVal(a) < KeyVal(b)

song_le(a, b) == KeyVal(a) <= KeyVal(b)

song_gt(a, b) == KeyVal(a) > KeyVal(b)

song_eq(a, b) == Comparable(a, b) /\ KeyVal(a) = KeyVal(b)

set_key(s, key) == [s EXCEPT !.key = key]

\* smallest unused node reference of a node store
NewRef(n) == CHOOSE i \in 1..(Cardinality(DOMAIN n) + 1) : i \notin DOMAIN n

\* ------------------------------------------------------ BinarySearchTree
\* a tree is [root, n]; n maps a node reference to [song, left, right]
BSTNew == [root |-> None, n |-> <<>>]

TreeNode(s) == [song |-> s, left |-> None, right |-> None]

RECURSIVE bst_insert_recursive_swapped(_, _, _, _)
\* _insert_recursive with the two subtrees taken the wrong way round
bst_insert_recursive_swapped(t, h, node, s) ==
    IF ~Comparable(h[s], h[t.n[node].song]) THEN [t |-> t, err |-> "TypeError"]
    ELSE IF song_lt(h[s], h[t.n[node].song]) THEN
        IF t.n[node].right = None
        THEN LET r == NewRef(t.n) IN
             [t |-> [t EXCEPT !.n = [@ EXCEPT ![node].right = r] @@ (r :> TreeNode(s))],
              err |-> "none"]
        ELSE bst_insert_recursive_swapped(t, h, t.n[node].right, s)
    ELSE
        IF t.n[node].left = None
        THEN LET r == NewRef(t.n) IN
             [t |-> [t EXCEPT !.n = [@ EXCEPT ![node].left = r] @@ (r :> TreeNode(s))],
              err |-> "none"]
        ELSE bst_insert_recursive_swapped(t, h, t.n[node].left, s)

RECURSIVE bst_insert_recursive(_, _, _, _)
bst_insert_recursive(t, h, node, s) ==
    IF ~Comparable(h[s], h[t.n[node].song]) THEN [t |-> t, err |-> "TypeError"]
    ELSE IF song_lt(h[s], h[t.n[node].song]) THEN
        IF t.n[node].left = None
        THEN LET r == NewRef(t.n) IN
             [t |-> [t EXCEPT !.n = [@ EXCEPT ![node].left = r] @@ (r :> TreeNode(s))],
              err |-> "none"]
        ELSE bst_insert_recursive(t, h, t.n[node].left, s)
    ELSE
        IF t.n[node].right = None
        THEN LET r == NewRef(t.n) IN
             [t |-> [t EXCEPT !.n = [@ EXCEPT ![node].right = r] @@ (r :> TreeNode(s))],
              err |-> "none"]
        ELSE bst_insert_recursive(t, h, t.n[node].right, s)

bst_insert(t, h, s) ==
    IF t.root = None
    THEN [t |-> [root |-> 1, n |-> (1 :> TreeNode(s))], err |-> "none"]
    ELSE bst_insert_recursive(t, h, t.root, s)

\* returns the node found (None when absent) or the TypeError of a comparison
RECURSIVE bst_search_recursive(_, _, _, _)
bst_search_recursive(t, h, node, p) ==
    IF node = None THEN [node |-> None, err |-> "none"]
    ELSE IF song_eq(h[t.n[node].song], p) THEN [node |-> node, err |-> "none"]
    ELSE IF ~Comparable(p, h[t.n[node].song]) THEN [node |-> None, err |-> "TypeError"]
    ELSE IF song_lt(p, h[t.n[node].song])
         THEN bst_search_recursive(t, h, t.n[node].left, p)
         ELSE bst_search_recursive(t, h, t.n[node].right, p)

bst_search(t, h, p) == bst_search_recursive(t, h, t.root, p)

\* in-order sequence of the song references below a node; `nil` marks "no child"
RECURSIVE InOrderFrom(_, _, _)
InOrderFrom(n, nil, node) ==
    IF node = nil \/ node = None THEN <<>>
    ELSE InOrderFrom(n, nil, n[node].left) \o <<n[node].song>>
         \o InOrderFrom(n, nil, n[node].right)

RECURSIVE NodesFrom(_, _, _)
NodesFrom(n, nil, node) ==
    IF node = nil \/ node = None THEN {}
    ELSE {node} \cup NodesFrom(n, nil, n[node].left) \cup NodesFrom(n, nil, n[node].right)

bst_inorder(t) == InOrderFrom(t.n, None, t.root)

\* ---------------------------------------------------------- RedBlackTree
\* the sentinel self.NIL is node 1 of every red-black tree
NIL == 1

RedBlackNode(s) ==
    [song |-> s, color |-> "RED", left |-> None, right |-> None, parent |-> None]

RBTNew ==
    [root |-> NIL, n |-> (NIL :> [RedBlackNode(None) EXCEPT !.color = "BLACK"])]

rbt_left_rotate(t, x) ==
    LET \* x.right = y.left and, unless y.left is the sentinel, y.left.parent = x
        move_left_subtree(tr, xn, y) ==
            IF tr.n[y].left # NIL
            THEN [tr EXCEPT !.n = [@ EXCEPT ![xn].right = tr.n[y].left, ![tr.n[y].left].parent = xn]]
            ELSE [tr EXCEPT !.n = [@ EXCEPT ![xn].right = tr.n[y].left]]
        \* y.parent = x.parent and y in the place of x below it (left child first)
        replace_left_first(tr, xn, y) ==
            IF tr.n[xn].parent = None
            THEN [tr EXCEPT !.root = y, !.n = [@ EXCEPT ![y].parent = None]]
            ELSE IF xn = tr.n[tr.n[xn].parent].left
            THEN [tr EXCEPT !.n = [@ EXCEPT ![y].parent = tr.n[xn].parent, ![tr.n[xn].parent].left = y]]
            ELSE [tr EXCEPT !.n = [@ EXCEPT ![y].parent = tr.n[xn].parent, ![tr.n[xn].parent].right = y]]
        \* y.left = x; x.parent = y
        turn_left(tr, xn, y) == [tr EXCEPT !.n = [@ EXCEPT ![y].left = xn, ![xn].parent = y]]
    IN  turn_left(replace_left_first(move_left_subtree(t, x, t.n[x].right), x, t.n[x].right),
                  x, t.n[x].right)

rbt_right_rotate(t, x) ==
    LET \* x.left = y.right and, unless y.right is the sentinel, y.right.parent = x
        move_right_subtree(tr, xn, y) ==
            IF tr.n[y].right # NIL
            THEN [tr EXCEPT !.n = [@ EXCEPT ![xn].left = tr.n[y].right, ![tr.n[y].right].parent = xn]]
            ELSE [tr EXCEPT !.n = [@ EXCEPT ![xn].left = tr.n[y].right]]
        \* y.parent = x.parent and y in the place of x below it (right child first)
        replace_right_first(tr, xn, y) ==
            IF tr.n[xn].parent = None
            THEN [tr EXCEPT !.root = y, !.n = [@ EXCEPT ![y].parent = None]]
            ELSE IF xn = tr.n[tr.n[xn].parent].right
            THEN [tr EXCEPT !.n = [@ EXCEPT ![y].parent = tr.n[xn].parent, ![tr.n[xn].parent].right = y]]
            ELSE [tr EXCEPT !.n = [@ EXCEPT ![y].parent = tr.n[xn].parent, ![tr.n[xn].parent].left = y]]
        \* y.right = x; x.parent = y
        turn_right(tr, xn, y) == [tr EXCEPT !.n = [@ EXCEPT ![y].right = xn, ![xn].parent = y]]
    IN  turn_right(replace_right_first(move_right_subtree(t, x, t.n[x].left), x, t.n[x].left),
                   x, t.n[x].left)

SetColor(t, x, c) == [t EXCEPT !.n = [@ EXCEPT ![x].color = c]]

\* the parent of the parent of a node
Grandparent(t, node) == t.n[t.n[node].parent].parent

RECURSIVE fix_insert_loop(_, _)
\* the while loop of fix_insert
fix_insert_loop(t, node) ==
    LET \* RED uncle: parent and uncle BLACK, grandparent RED
        recolor(tr, nd, uncle) ==
            SetColor(SetColor(SetColor(tr, tr.n[nd].parent, "BLACK"), uncle, "BLACK"),
                     Grandparent(tr, nd), "RED")
        \* if node == node.parent.right: node = node.parent; self.left_rotate(node)
        straighten_left(tr, nd) ==
            IF nd = tr.n[tr.n[nd].parent].right
            THEN [t |-> rbt_left_rotate(tr, tr.n[nd].parent), node |-> tr.n[nd].parent]
            ELSE [t |-> tr, node |-> nd]
        \* if node == node.parent.left: node = node.parent; self.right_rotate(node)
        straighten_right(tr, nd) ==
            IF nd = tr.n[tr.n[nd].parent].left
            THEN [t |-> rbt_right_rotate(tr, tr.n[nd].parent), node |-> tr.n[nd].parent]
            ELSE [t |-> tr, node |-> nd]
        \* node.parent.color = "BLACK"; node.parent.parent.color = "RED"
        recolor_parents(tr, nd) ==
            SetColor(SetColor(tr, tr.n[nd].parent, "BLACK"), Grandparent(tr, nd), "RED")
        \* the recolouring and self.right_rotate(node.parent.parent)
        rotate_grandparent_right(s) ==
            [t |-> rbt_right_rotate(recolor_parents(s.t, s.node), Grandparent(s.t, s.node)),
             node |-> s.node]
        \* the recolouring and self.left_rotate(node.parent.parent)
        rotate_grandparent_left(s) ==
            [t |-> rbt_left_rotate(recolor_parents(s.t, s.node), Grandparent(s.t, s.node)),
             node |-> s.node]
        \* the next round of the loop
        fix_insert_next(s) == fix_insert_loop(s.t, s.node)
    IN  IF node # t.root /\ t.n[t.n[node].parent].color = "RED" THEN
            IF t.n[node].parent = t.n[Grandparent(t, node)].left THEN
                IF t.n[t.n[Grandparent(t, node)].right].color = "RED"
                THEN fix_insert_loop(recolor(t, node, t.n[Grandparent(t, node)].right),
                                     Grandparent(t, node))
                ELSE fix_insert_next(rotate_grandparent_right(straighten_left(t, node)))
            ELSE
                IF t.n[t.n[Grandparent(t, node)].left].color = "RED"
                THEN fix_insert_loop(recolor(t, node, t.n[Grandparent(t, node)].left),
                                     Grandparent(t, node))
                ELSE fix_insert_next(rotate_grandparent_left(straighten_right(t, node)))
        ELSE t

fix_insert(t, node) ==
    LET \* self.root.color = "BLACK"
        blacken_root(tr) == SetColor(tr, tr.root, "BLACK")
    IN  blacken_root(fix_insert_loop(t, node))

\* the descent of insert: the parent under which the new node is hung
RECURSIVE rbt_insert_descend(_, _, _, _, _)
rbt_insert_descend(t, h, s, parent, current) ==
    IF current = NIL THEN [parent |-> parent, err |-> "none"]
    ELSE IF ~Comparable(h[s], h[t.n[current].song]) THEN [parent |-> current, err |-> "TypeError"]
    ELSE IF song_lt(h[s], h[t.n[current].song])
         THEN rbt_insert_descend(t, h, s, current, t.n[current].left)
         ELSE rbt_insert_descend(t, h, s, current, t.n[current].right)

rbt_insert(t, h, s) ==
    LET \* the new node of insert, RED with the sentinel as both children
        NewRedBlackNode(sg, parent) ==
            [RedBlackNode(sg) EXCEPT !.left = NIL, !.right = NIL, !.parent = parent]
        \* the new node r below the parent the descent ended at
        rbt_attach(tr, hp, sg, parent, r) ==
            IF parent = None
            THEN [root |-> r, n |-> tr.n @@ (r :> NewRedBlackNode(sg, parent))]
            ELSE IF song_lt(hp[sg], hp[tr.n[parent].song])
            THEN [tr EXCEPT !.n = [@ EXCEPT ![parent].left = r] @@ (r :> NewRedBlackNode(sg, parent))]
            ELSE [tr EXCEPT !.n = [@ EXCEPT ![parent].right = r] @@ (r :> NewRedBlackNode(sg, parent))]
        \* the statements after the descent, which gave d
        rbt_insert_at(tr, hp, sg, d) ==
            IF d.err # "none" THEN [t |-> tr, err |-> d.err]
            ELSE [t |-> fix_insert(rbt_attach(tr, hp, sg, d.parent, NewRef(tr.n)), NewRef(tr.n)),
                  err |-> "none"]
    IN  rbt_insert_at(t, h, s, rbt_insert_descend(t, h, s, None, t.root))

RECURSIVE rbt_search_recursive_not_less(_, _, _, _)
\* _search_recursive that takes "not less" for "equal"
rbt_search_recursive_not_less(t, h, node, p) ==
    IF node = NIL THEN [node |-> None, err |-> "none"]
    ELSE IF ~Comparable(p, h[t.n[node].song]) THEN [node |-> None, err |-> "TypeError"]
    ELSE IF ~song_lt(p, h[t.n[node].song]) THEN [node |-> node, err |-> "none"]
    ELSE rbt_search_recursive_not_less(t, h, t.n[node].left, p)

RECURSIVE rbt_search_recursive(_, _, _, _)
rbt_search_recursive(t, h, node, p) ==
    IF node = NIL THEN [node |-> None, err |-> "none"]
    ELSE IF song_eq(h[t.n[node].song], p) THEN [node |-> node, err |-> "none"]
    ELSE IF ~Comparable(p, h[t.n[node].song]) THEN [node |-> None, err |-> "TypeError"]
    ELSE IF song_lt(p, h[t.n[node].song])
         THEN rbt_search_recursive(t, h, t.n[node].left, p)
         ELSE rbt_search_recursive(t, h, t.n[node].right, p)

rbt_search(t, h, p) == rbt_search_recursive(t, h, t.root, p)

rbt_transplant(t, u, v) ==
    IF t.n[u].parent = None
    THEN [t EXCEPT !.root = v, !.n = [@ EXCEPT ![v].parent = None]]
    ELSE IF u = t.n[t.n[u].parent].left
    THEN [t EXCEPT !.n = [@ EXCEPT ![t.n[u].parent].left = v, ![v].parent = t.n[u].parent]]
    ELSE [t EXCEPT !.n = [@ EXCEPT ![t.n[u].parent].right = v, ![v].parent = t.n[u].parent]]

\* minimum without the walk to the left
rbt_minimum_no_descent(t, node) == node

RECURSIVE rbt_minimum(_, _)
rbt_minimum(t, node) ==
    IF t.n[node].left # NIL THEN rbt_minimum(t, t.n[node].left) ELSE node

\* sibling = x.parent.right
RightSibling(t, x) == t.n[t.n[x].parent].right

\* sibling = x.parent.left
LeftSibling(t, x) == t.n[t.n[x].parent].left

RECURSIVE fix_delete_loop(_, _)
\* the while loop of fix_delete; yields the tree and the final x
fix_delete_loop(t, x) ==
    LET \* x is a left child: the branch for a RED sibling
        red_sibling_right(tr, xn) ==
            IF tr.n[RightSibling(tr, xn)].color = "RED"
            THEN rbt_left_rotate(
                     SetColor(SetColor(tr, RightSibling(tr, xn), "BLACK"), tr.n[xn].parent, "RED"),
                     tr.n[xn].parent)
            ELSE tr
        \* x is a left child: the branch for a sibling whose right child is BLACK
        near_red_right(tr, xn) ==
            IF tr.n[tr.n[RightSibling(tr, xn)].right].color = "BLACK"
            THEN rbt_right_rotate(
                     SetColor(SetColor(tr, tr.n[RightSibling(tr, xn)].left, "BLACK"),
                              RightSibling(tr, xn), "RED"),
                     RightSibling(tr, xn))
            ELSE tr
        \* x is a left child: the four statements before x = self.root
        far_red_right(tr, xn) ==
            rbt_left_rotate(
                SetColor(SetColor(SetColor(tr, RightSibling(tr, xn), tr.n[tr.n[xn].parent].color),
                                  tr.n[xn].parent, "BLACK"),
                         tr.n[RightSibling(tr, xn)].right, "BLACK"),
                tr.n[xn].parent)
        \* x is a right child: the branch for a RED sibling
        red_sibling_left(tr, xn) ==
            IF tr.n[LeftSibling(tr, xn)].color = "RED"
            THEN rbt_right_rotate(
                     SetColor(SetColor(tr, LeftSibling(tr, xn), "BLACK"), tr.n[xn].parent, "RED"),
                     tr.n[xn].parent)
            ELSE tr
        \* x is a right child: the branch for a sibling whose left child is BLACK
        near_red_left(tr, xn) ==
            IF tr.n[tr.n[LeftSibling(tr, xn)].left].color = "BLACK"
            THEN rbt_left_rotate(
                     SetColor(SetColor(tr, tr.n[LeftSibling(tr, xn)].right, "BLACK"),
                              LeftSibling(tr, xn), "RED"),
                     LeftSibling(tr, xn))
            ELSE tr
        \* x is a right child: the four statements before x = self.root
        far_red_left(tr, xn) ==
            rbt_right_rotate(
                SetColor(SetColor(SetColor(tr, LeftSibling(tr, xn), tr.n[tr.n[xn].parent].color),
                                  tr.n[xn].parent, "BLACK"),
                         tr.n[LeftSibling(tr, xn)].left, "BLACK"),
                tr.n[xn].parent)
        \* x = self.root and the next round
        fix_delete_from_root(tr) == fix_delete_loop(tr, tr.root)
        \* x is a left child, after the branch for a RED sibling
        fix_delete_left_child(tr, xn) ==
            IF /\ tr.n[tr.n[RightSibling(tr, xn)].left].color = "BLACK"
               /\ tr.n[tr.n[RightSibling(tr, xn)].right].color = "BLACK"
            THEN fix_delete_loop(SetColor(tr, RightSibling(tr, xn), "RED"), tr.n[xn].parent)
            ELSE fix_delete_from_root(far_red_right(near_red_right(tr, xn), xn))
        \* x is a right child, after the branch for a RED sibling
        fix_delete_right_child(tr, xn) ==
            IF /\ tr.n[tr.n[LeftSibling(tr, xn)].right].color = "BLACK"
               /\ tr.n[tr.n[LeftSibling(tr, xn)].left].color = "BLACK"
            THEN fix_delete_loop(SetColor(tr, LeftSibling(tr, xn), "RED"), tr.n[xn].parent)
            ELSE fix_delete_from_root(far_red_left(near_red_left(tr, xn), xn))
    IN  IF x # t.root /\ t.n[x].color = "BLACK" THEN
            IF x = t.n[t.n[x].parent].left
            THEN fix_delete_left_child(red_sibling_right(t, x), x)
            ELSE fix_delete_right_child(red_sibling_left(t, x), x)
        ELSE [t |-> t, x |-> x]

\* fix_delete without its while loop: only the final x.color = "BLACK"
fix_delete_no_loop(t, x) == SetColor(t, x, "BLACK")

fix_delete(t, x) ==
    LET \* x.color = "BLACK" on the x the loop ended with
        blacken(r) == SetColor(r.t, r.x, "BLACK")
    IN  blacken(fix_delete_loop(t, x))

\* Python frees a node that nothing refers to any more: a deleted node stays
\* only while NIL.parent still points to it
rbt_collect(t) ==
    [t EXCEPT !.n = [i \in DOMAIN t.n \cap
                          (NodesFrom(t.n, NIL, t.root) \cup {NIL, t.n[NIL].parent}) |-> t.n[i]]]

\* delete(song) with the probe p; err is "NotFound" when the message of
\* line 300 is printed
rbt_delete(t, h, p) ==
    LET \* the tree a completed delete leaves behind
        rbt_deleted(tr) == [t |-> rbt_collect(tr), err |-> "none"]
        \* if y_original_color == "BLACK": self.fix_delete(x)
        fix_if_black(tr, y_original_color, x) ==
            IF y_original_color = "BLACK" THEN fix_delete(tr, x) ELSE tr
        \* y.right = node_to_delete.right; y.right.parent = y
        adopt_right(tr, z, y) ==
            [tr EXCEPT !.n = [@ EXCEPT ![y].right = tr.n[z].right, ![tr.n[z].right].parent = y]]
        \* the minimum y of the right subtree is taken out of its place
        detach_minimum(tr, z, y) ==
            IF tr.n[y].parent = z
            THEN [tr EXCEPT !.n = [@ EXCEPT ![tr.n[y].right].parent = y]]
            ELSE adopt_right(rbt_transplant(tr, y, tr.n[y].right), z, y)
        \* y.left = node_to_delete.left; y.left.parent = y; y.color = node_to_delete.color
        adopt_left(tr, z, y) ==
            [tr EXCEPT !.n = [@ EXCEPT ![y].left = tr.n[z].left,
                                      ![tr.n[z].left].parent = y,
                                      ![y].color = tr.n[z].color]]
        \* the branch of delete for a node z with two children, y its successor
        rbt_delete_inner(tr, z, y) ==
            rbt_deleted(fix_if_black(adopt_left(rbt_transplant(detach_minimum(tr, z, y), z, y), z, y),
                                     tr.n[y].color, tr.n[y].right))
        \* delete of the node z that search found
        rbt_delete_node(tr, z) ==
            IF tr.n[z].left = NIL
            THEN rbt_deleted(fix_if_black(rbt_transplant(tr, z, tr.n[z].right),
                                          tr.n[z].color, tr.n[z].right))
            ELSE IF tr.n[z].right = NIL
            THEN rbt_deleted(fix_if_black(rbt_transplant(tr, z, tr.n[z].left),
                                          tr.n[z].color, tr.n[z].left))
            ELSE rbt_delete_inner(tr, z, rbt_minimum(tr, tr.n[z].right))
        \* delete, after search gave f
        rbt_delete_found(tr, f) ==
            IF f.err # "none" THEN [t |-> tr, err |-> f.err]
            ELSE IF f.node = None THEN [t |-> tr, err |-> "NotFound"]
            ELSE rbt_delete_node(tr, f.node)
    IN  rbt_delete_found(t, rbt_search(t, h, p))

rbt_inorder(t) == InOrderFrom(t.n, NIL, t.root)

\* --------------------------------------------------------------- AVLTree
\* a tree is [root, size, n]; n maps a node reference to an AVLNode
AVLNode(s, parent) ==
    [song |-> s, parent |-> parent, left |-> None, right |-> None, height |-> 1]

AVLNew == [root |-> None, size |-> 0, n |-> <<>>]

left_height(t, i) == IF t.n[i].left = None THEN 0 ELSE t.n[t.n[i].left].height

right_height(t, i) == IF t.n[i].right = None THEN 0 ELSE t.n[t.n[i].right].height

balance_factor(t, i) == left_height(t, i) - right_height(t, i)

Max(a, b) == IF a >= b THEN a ELSE b

update_height(t, i) ==
    [t EXCEPT !.n = [@ EXCEPT ![i].height = 1 + Max(left_height(t, i), right_height(t, i))]]

set_left(t, i, node) ==
    LET t1 == [t EXCEPT !.n = [@ EXCEPT ![i].left = node]]
        t2 == IF node # None THEN [t1 EXCEPT !.n = [@ EXCEPT ![node].parent = i]] ELSE t1
    IN  update_height(t2, i)

set_right(t, i, node) ==
    LET t1 == [t EXCEPT !.n = [@ EXCEPT ![i].right = node]]
        t2 == IF node # None THEN [t1 EXCEPT !.n = [@ EXCEPT ![node].parent = i]] ELSE t1
    IN  update_height(t2, i)

is_left_child(t, i) == t.n[i].parent # None /\ t.n[t.n[i].parent].left = i

is_right_child(t, i) == t.n[i].parent # None /\ t.n[t.n[i].parent].right = i

\* rotate_left(a) returns b; the caller re-attaches it
avl_rotate_left(t, a) ==
    LET b == t.n[a].right
    IN  [t |-> set_left(set_right(t, a, t.n[b].left), b, a), node |-> b]

avl_rotate_right(t, a) ==
    LET b == t.n[a].left
    IN  [t |-> set_right(set_left(t, a, t.n[b].right), b, a), node |-> b]

\* rebalance(node): the tree, the node returned, and the exception raised when
\* the branch for "balance must be -2" reads node.right of a node without one
rebalance(t, node) ==
    LET \* node.set_left(self.rotate_left(node.left)) with r the result of the rotation
        set_left_rotated(nd, r) == set_left(r.t, nd, r.node)
        \* node.set_right(self.rotate_right(node.right))
        set_right_rotated(nd, r) == set_right(r.t, nd, r.node)
        \* return self.rotate_right(node) / return self.rotate_left(node)
        rebalanced(r) == [t |-> r.t, node |-> r.node, err |-> "none"]
    IN  IF node = None THEN [t |-> t, node |-> None, err |-> "none"]
        ELSE IF balance_factor(t, node) >= -1 /\ balance_factor(t, node) <= 1
             THEN [t |-> t, node |-> node, err |-> "none"]
        ELSE IF balance_factor(t, node) = 2 THEN
            rebalanced(avl_rotate_right(
                IF balance_factor(t, t.n[node].left) = -1
                THEN set_left_rotated(node, avl_rotate_left(t, t.n[node].left))
                ELSE t,
                node))
        ELSE IF t.n[node].right = None THEN [t |-> t, node |-> node, err |-> "AttributeError"]
        ELSE
            rebalanced(avl_rotate_left(
                IF balance_factor(t, t.n[node].right) = 1
                THEN set_right_rotated(node, avl_rotate_right(t, t.n[node].right))
                ELSE t,
                node))

RECURSIVE restore_balance_loop(_, _)
\* the while loop of restore_balance
restore_balance_loop(t, current) ==
    LET \* current.set_left(rl) with rl the result of self.rebalance(current.left)
        set_left_rebalanced(cur, rl) ==
            IF rl.err # "none" THEN [t |-> rl.t, err |-> rl.err]
            ELSE [t |-> set_left(rl.t, cur, rl.node), err |-> "none"]
        \* current.set_right(rr) with rr the result of self.rebalance(current.right),
        \* then current.update_height()
        set_right_rebalanced(cur, rr) ==
            IF rr.err # "none" THEN [t |-> rr.t, err |-> rr.err]
            ELSE [t |-> update_height(set_right(rr.t, cur, rr.node), cur), err |-> "none"]
        \* the second and third statement of the loop body, after the first gave a
        rebalance_right(cur, a) ==
            IF a.err # "none" THEN a
            ELSE set_right_rebalanced(cur, rebalance(a.t, a.t.n[cur].right))
        \* current = current.parent and the next round, after the loop body gave a
        restore_balance_next(cur, a) ==
            IF a.err # "none" THEN a ELSE restore_balance_loop(a.t, a.t.n[cur].parent)
    IN  IF current = None THEN [t |-> t, err |-> "none"]
        ELSE restore_balance_next(current,
                 rebalance_right(current,
                     set_left_rebalanced(current, rebalance(t, t.n[current].left))))

restore_balance(t, node) ==
    LET \* self.root = r; self.root.parent = None, with r the result of rebalance
        set_root(r) ==
            IF r.err # "none" THEN [t |-> r.t, err |-> r.err]
            ELSE IF r.node = None THEN [t |-> [r.t EXCEPT !.root = None], err |-> "AttributeError"]
            ELSE [t |-> [r.t EXCEPT !.root = r.node, !.n = [@ EXCEPT ![r.node].parent = None]],
                  err |-> "none"]
        \* the statements after the loop, which gave l
        rebalance_root(l) ==
            IF l.err # "none" THEN l ELSE set_root(rebalance(l.t, l.t.root))
    IN  rebalance_root(restore_balance_loop(t, node))

RECURSIVE avl_insert_descend(_, _, _, _, _)
avl_insert_descend(t, h, s, parent, current) ==
    IF current = None THEN [parent |-> parent, err |-> "none"]
    ELSE IF ~Comparable(h[s], h[t.n[current].song]) THEN [parent |-> current, err |-> "TypeError"]
    ELSE IF song_lt(h[s], h[t.n[current].song])
         THEN avl_insert_descend(t, h, s, current, t.n[current].left)
         ELSE avl_insert_descend(t, h, s, current, t.n[current].right)

avl_insert(t, h, s) ==
    LET \* the new node r below the parent the descent ended at
        avl_attach(tr, hp, sg, parent, r) ==
            IF parent = None THEN [tr EXCEPT !.root = r, !.n = @ @@ (r :> AVLNode(sg, parent))]
            ELSE IF song_lt(hp[sg], hp[tr.n[parent].song])
                 THEN [tr EXCEPT !.n = [@ EXCEPT ![parent].left = r] @@ (r :> AVLNode(sg, parent))]
                 ELSE [tr EXCEPT !.n = [@ EXCEPT ![parent].right = r] @@ (r :> AVLNode(sg, parent))]
        \* the statements after the descent, which gave d
        avl_insert_at(tr, hp, sg, d) ==
            IF d.err # "none" THEN [t |-> tr, err |-> d.err]
            ELSE restore_balance(avl_attach(tr, hp, sg, d.parent, NewRef(tr.n)), NewRef(tr.n))
        \* insert(value); self.size += 1 is the first statement
        insert_sized(tr, hp, sg) == avl_insert_at(tr, hp, sg, avl_insert_descend(tr, hp, sg, None, tr.root))
    IN  insert_sized([t EXCEPT !.size = @ + 1], h, s)

RECURSIVE avl_leftmost(_, _, _)
avl_leftmost(t, previous, current) ==
    IF current = None THEN previous ELSE avl_leftmost(t, current, t.n[current].left)

RECURSIVE avl_rightmost(_, _, _)
avl_rightmost(t, previous, current) ==
    IF current = None THEN previous ELSE avl_rightmost(t, current, t.n[current].right)

\* avl_search_loop going right for a smaller probe and left otherwise
RECURSIVE avl_search_loop_swapped(_, _, _, _)
avl_search_loop_swapped(t, h, current, p) ==
    IF current = None THEN [node |-> None, err |-> "none"]
    ELSE IF song_eq(p, h[t.n[current].song]) THEN [node |-> current, err |-> "none"]
    ELSE IF ~Comparable(p, h[t.n[current].song]) THEN [node |-> None, err |-> "TypeError"]
    ELSE IF song_lt(p, h[t.n[current].song])
         THEN avl_search_loop_swapped(t, h, t.n[current].right, p)
         ELSE avl_search_loop_swapped(t, h, t.n[current].left, p)

RECURSIVE avl_search_loop(_, _, _, _)
avl_search_loop(t, h, current, p) ==
    IF current = None THEN [node |-> None, err |-> "none"]
    ELSE IF song_eq(p, h[t.n[current].song]) THEN [node |-> current, err |-> "none"]
    ELSE IF ~Comparable(p, h[t.n[current].song]) THEN [node |-> None, err |-> "TypeError"]
    ELSE IF song_lt(p, h[t.n[current].song])
         THEN avl_search_loop(t, h, t.n[current].left, p)
         ELSE avl_search_loop(t, h, t.n[current].right, p)

avl_search(t, h, p) == avl_search_loop(t, h, t.root, p)

delete_leaf(t, node) ==
    IF t.n[node].parent = None THEN [t EXCEPT !.root = None]
    ELSE IF is_left_child(t, node)
         THEN [t EXCEPT !.n = [@ EXCEPT ![t.n[node].parent].left = None, ![node].parent = None]]
         ELSE [t EXCEPT !.n = [@ EXCEPT ![t.n[node].parent].right = None, ![node].parent = None]]

\* a node that is no longer reachable from the root is freed
avl_collect(t) ==
    [t EXCEPT !.n = [i \in DOMAIN t.n \cap NodesFrom(t.n, None, t.root) |-> t.n[i]]]

\* the value line 615 reads from the replacement node: AVLNode has the
\* attributes song, parent, left, right and height, so reading .value raises
replacement_value(t, replacement) ==
    [song |-> None, err |-> "AttributeError"]

\* delete(value) with the probe p; err is "Exception" for the
\* Exception("Value not stored in tree") of line 592
avl_delete(t, h, p) ==
    LET \* replacement.parent.set_left(child) or replacement.parent.set_right(child)
        reparent(tr, replacement, child) ==
            IF is_left_child(tr, replacement)
            THEN set_left(tr, tr.n[replacement].parent, child)
            ELSE set_right(tr, tr.n[replacement].parent, child)
        \* the tree a delete leaves behind, and how restore_balance ended
        avl_deleted(r) == [t |-> avl_collect(r.t), err |-> r.err]
        \* node.song = replacement.value, with v what the read of .value gave, then
        \* restore_balance(replacement.parent)
        avl_replace(tr, node, replacement, v) ==
            IF v.err # "none" THEN [t |-> avl_collect(tr), err |-> v.err]
            ELSE avl_deleted(restore_balance([tr EXCEPT !.n = [@ EXCEPT ![node].song = v.song]],
                                             tr.n[replacement].parent))
        \* the branch "if replacement:" on the tree with the replacement spliced out
        avl_replace_value(tr, node, replacement) ==
            avl_replace(tr, node, replacement, replacement_value(tr, replacement))
        \* the branch for a leaf: delete_leaf(node), then restore_balance(node.parent)
        avl_delete_leaf(tr, node) ==
            IF tr.n[node].parent # None
            THEN avl_deleted(restore_balance(delete_leaf(tr, node), tr.n[node].parent))
            ELSE [t |-> avl_collect(delete_leaf(tr, node)), err |-> "none"]
        \* the replacement is the rightmost node of the left subtree
        avl_replace_by_rightmost(tr, node, replacement) ==
            avl_replace_value(reparent(tr, replacement, tr.n[replacement].left), node, replacement)
        \* the replacement is the leftmost node of the right subtree
        avl_replace_by_leftmost(tr, node, replacement) ==
            avl_replace_value(reparent(tr, replacement, tr.n[replacement].right), node, replacement)
        \* delete, after search gave f
        avl_delete_found(tr, f) ==
            IF f.err # "none" THEN [t |-> tr, err |-> f.err]
            ELSE IF f.node = None THEN [t |-> tr, err |-> "Exception"]
            ELSE IF tr.n[f.node].left # None
                 THEN avl_replace_by_rightmost(tr, f.node, avl_rightmost(tr, None, tr.n[f.node].left))
            ELSE IF tr.n[f.node].right # None
                 THEN avl_replace_by_leftmost(tr, f.node, avl_leftmost(tr, None, tr.n[f.node].right))
            ELSE avl_delete_leaf(tr, f.node)
    IN  avl_delete_found(t, avl_search(t, h, p))

avl_inorder(t) == InOrderFrom(t.n, None, t.root)

\* ------------------------------------------------------- sort algorithms
\* A list is a sequence of Song references; Python index i is position i + 1.
\* Every sort yields [l, ret, none, err]: l is the argument list as the call
\* left it (the in-place sorts change it), ret the list returned, none is
\* TRUE when the call returned None, err the exception of a comparison.
At(l, i) == l[i + 1]

Put(l, i, v) == [l EXCEPT ![i + 1] = v]

Swap(l, i, j) == [l EXCEPT ![i + 1] = l[j + 1], ![j + 1] = l[i + 1]]

Slice(l, from, to) == SubSeq(l, from + 1, to)

Sorted(l, err) == [l |-> l, ret |-> l, none |-> FALSE, err |-> err]

RECURSIVE merge_loop(_, _, _, _, _, _)
merge_loop(left, right, h, i, j, sorted_array) ==
    IF i < Len(left) /\ j < Len(right) THEN
        IF ~Comparable(h[At(left, i)], h[At(right, j)])
        THEN [ret |-> sorted_array, err |-> "TypeError"]
        ELSE IF song_lt(h[At(left, i)], h[At(right, j)])
             THEN merge_loop(left, right, h, i + 1, j, Append(sorted_array, At(left, i)))
             ELSE merge_loop(left, right, h, i, j + 1, Append(sorted_array, At(right, j)))
    ELSE [ret |-> sorted_array \o Slice(left, i, Len(left)) \o Slice(right, j, Len(right)),
          err |-> "none"]

merge(left, right, h) == merge_loop(left, right, h, 0, 0, <<>>)

RECURSIVE merge_sort_rec(_, _)
merge_sort_rec(l, h) ==
    IF Len(l) <= 1 THEN [ret |-> l, err |-> "none"]
    ELSE
        LET mid        == Len(l) \div 2
            left_half  == merge_sort_rec(Slice(l, 0, mid), h)
        IN  IF left_half.err # "none" THEN left_half
            ELSE LET right_half == merge_sort_rec(Slice(l, mid, Len(l)), h)
                 IN  IF right_half.err # "none" THEN right_half
                     ELSE merge(left_half.ret, right_half.ret, h)

merge_sort(l, h) ==
    LET r == merge_sort_rec(l, h)
    IN  [l |-> l, ret |-> r.ret, none |-> FALSE, err |-> r.err]

\* the for loop of partition
RECURSIVE partition_loop(_, _, _, _, _)
partition_loop(l, h, high, i, j) ==
    IF j < high THEN
        IF ~Comparable(h[At(l, j)], h[At(l, high)]) THEN [l |-> l, i |-> i, err |-> "TypeError"]
        ELSE IF song_le(h[At(l, j)], h[At(l, high)])
             THEN partition_loop(Swap(l, i + 1, j), h, high, i + 1, j + 1)
             ELSE partition_loop(l, h, high, i, j + 1)
    ELSE [l |-> l, i |-> i, err |-> "none"]

partition(l, h, low, high) ==
    LET r == partition_loop(l, h, high, low - 1, low)
    IN  IF r.err # "none" THEN [l |-> r.l, pi |-> r.i + 1, err |-> r.err]
        ELSE [l |-> Swap(r.l, r.i + 1, high), pi |-> r.i + 1, err |-> "none"]

RECURSIVE quick_sort_rec(_, _, _, _)
quick_sort_rec(l, h, low, high) ==
    IF low < high THEN
        LET p == partition(l, h, low, high) IN
        IF p.err # "none" THEN [l |-> p.l, err |-> p.err]
        ELSE LET a == quick_sort_rec(p.l, h, low, p.pi - 1)
             IN  IF a.err # "none" THEN a
                 ELSE quick_sort_rec(a.l, h, p.pi + 1, high)
    ELSE [l |-> l, err |-> "none"]

quick_sort(l, h) ==
    LET r == quick_sort_rec(l, h, 0, Len(l) - 1) IN Sorted(r.l, r.err)

\* the inner for loop of selection_sort
RECURSIVE selection_min(_, _, _, _, _)
selection_min(l, h, size, min_index, j) ==
    IF j < size THEN
        IF ~Comparable(h[At(l, j)], h[At(l, min_index)])
        THEN [min_index |-> min_index, err |-> "TypeError"]
        ELSE selection_min(l, h, size,
                           IF song_lt(h[At(l, j)], h[At(l, min_index)]) THEN j ELSE min_index,
                           j + 1)
    ELSE [min_index |-> min_index, err |-> "none"]

RECURSIVE selection_loop(_, _, _, _)
selection_loop(l, h, size, ind) ==
    IF ind < size THEN
        LET m == selection_min(l, h, size, ind, ind + 1) IN
        IF m.err # "none" THEN [l |-> l, err |-> m.err]
        ELSE selection_loop(Swap(l, ind, m.min_index), h, size, ind + 1)
    ELSE [l |-> l, err |-> "none"]

selection_sort(l, h) ==
    LET r == selection_loop(l, h, Len(l), 0) IN Sorted(r.l, r.err)

\* the while loop of insertion_sort
RECURSIVE insertion_shift(_, _, _, _)
insertion_shift(l, h, key, j) ==
    IF j >= 0 THEN
        IF ~Comparable(h[key], h[At(l, j)]) THEN [l |-> l, j |-> j, err |-> "TypeError"]
        ELSE IF song_lt(h[key], h[At(l, j)])
             THEN insertion_shift(Put(l, j + 1, At(l, j)), h, key, j - 1)
             ELSE [l |-> l, j |-> j, err |-> "none"]
    ELSE [l |-> l, j |-> j, err |-> "none"]

RECURSIVE insertion_loop(_, _, _)
insertion_loop(l, h, i) ==
    IF i < Len(l) THEN
        LET key == At(l, i)
            w   == insertion_shift(l, h, key, i - 1)
        IN  IF w.err # "none" THEN [l |-> w.l, err |-> w.err]
            ELSE insertion_loop(Put(w.l, w.j + 1, key), h, i + 1)
    ELSE [l |-> l, err |-> "none"]

insertion_sort(l, h) ==
    IF Len(l) <= 1 THEN [l |-> l, ret |-> l, none |-> TRUE, err |-> "none"]
    ELSE LET r == insertion_loop(l, h, 1) IN Sorted(r.l, r.err)

\* the while loop of shell_sort
RECURSIVE shell_shift(_, _, _, _, _)
shell_shift(l, h, gap, temp, j) ==
    IF j >= gap THEN
        IF ~Comparable(h[At(l, j - gap)], h[temp]) THEN [l |-> l, j |-> j, err |-> "TypeError"]
        ELSE IF song_gt(h[At(l, j - gap)], h[temp])
             THEN shell_shift(Put(l, j, At(l, j - gap)), h, gap, temp, j - gap)
             ELSE [l |-> l, j |-> j, err |-> "none"]
    ELSE [l |-> l, j |-> j, err |-> "none"]

RECURSIVE shell_pass(_, _, _, _)
shell_pass(l, h, gap, i) ==
    IF i < Len(l) THEN
        LET temp == At(l, i)
            w    == shell_shift(l, h, gap, temp, i)
        IN  IF w.err # "none" THEN [l |-> w.l, err |-> w.err]
            ELSE shell_pass(Put(w.l, w.j, temp), h, gap, i + 1)
    ELSE [l |-> l, err |-> "none"]

RECURSIVE shell_loop(_, _, _)
shell_loop(l, h, gap) ==
    IF gap > 0 THEN
        LET r == shell_pass(l, h, gap, gap) IN
        IF r.err # "none" THEN r ELSE shell_loop(r.l, h, gap \div 2)
    ELSE [l |-> l, err |-> "none"]

shell_sort(l, h) ==
    LET r == shell_loop(l, h, Len(l) \div 2) IN Sorted(r.l, r.err)

\* one pass of adjacent swaps over the indices from..to-1, going up
RECURSIVE bubble_pass(_, _, _, _, _)
bubble_pass(l, h, j, to, swapped) ==
    IF j < to THEN
        IF ~Comparable(h[At(l, j)], h[At(l, j + 1)])
        THEN [l |-> l, swapped |-> swapped, err |-> "TypeError"]
        ELSE IF song_gt(h[At(l, j)], h[At(l, j + 1)])
             THEN bubble_pass(Swap(l, j, j + 1), h, j + 1, to, TRUE)
             ELSE bubble_pass(l, h, j + 1, to, swapped)
    ELSE [l |-> l, swapped |-> swapped, err |-> "none"]

RECURSIVE bubble_loop(_, _, _)
bubble_loop(l, h, i) ==
    IF i < Len(l) - 1 THEN
        LET r == bubble_pass(l, h, 0, Len(l) - i - 1, FALSE) IN
        IF r.err # "none" THEN [l |-> r.l, err |-> r.err]
        ELSE bubble_loop(r.l, h, i + 1)
    ELSE [l |-> l, err |-> "none"]

bubble_sort(l, h) ==
    LET r == bubble_loop(l, h, 0) IN Sorted(r.l, r.err)

RECURSIVE optimized_bubble_loop(_, _, _)
optimized_bubble_loop(l, h, i) ==
    IF i < Len(l) - 1 THEN
        LET r == bubble_pass(l, h, 0, Len(l) - i - 1, FALSE) IN
        IF r.err # "none" THEN [l |-> r.l, err |-> r.err]
        ELSE IF ~r.swapped THEN [l |-> r.l, err |-> "none"]
        ELSE optimized_bubble_loop(r.l, h, i + 1)
    ELSE [l |-> l, err |-> "none"]

optimized_bubble_sort(l, h) ==
    LET r == optimized_bubble_loop(l, h, 0) IN Sorted(r.l, r.err)

\* the backward pass of cocktail_sort over the indices i = from down to to
RECURSIVE cocktail_down(_, _, _, _, _)
cocktail_down(l, h, i, to, swapped) ==
    IF i >= to THEN
        IF ~Comparable(h[At(l, i)], h[At(l, i + 1)])
        THEN [l |-> l, swapped |-> swapped, err |-> "TypeError"]
        ELSE IF song_gt(h[At(l, i)], h[At(l, i + 1)])
             THEN cocktail_down(Swap(l, i, i + 1), h, i - 1, to, TRUE)
             ELSE cocktail_down(l, h, i - 1, to, swapped)
    ELSE [l |-> l, swapped |-> swapped, err |-> "none"]

RECURSIVE cocktail_loop(_, _, _, _)
cocktail_loop(l, h, start, end) ==
    LET up == bubble_pass(l, h, start, end, FALSE) IN
    IF up.err # "none" THEN [l |-> up.l, err |-> up.err]
    ELSE IF ~up.swapped THEN [l |-> up.l, err |-> "none"]
    ELSE
        LET down == cocktail_down(up.l, h, end - 2, start, FALSE) IN
        IF down.err # "none" THEN [l |-> down.l, err |-> down.err]
        ELSE IF ~down.swapped THEN [l |-> down.l, err |-> "none"]
        ELSE cocktail_loop(down.l, h, start + 1, end - 1)

cocktail_sort(l, h) ==
    LET r == cocktail_loop(l, h, 0, Len(l) - 1) IN Sorted(r.l, r.err)

\* -------------------------------------------------------------- MusicApp
\* a list of the same length drawn from l with repetition
Perms_with_repetition(l) == {[i \in 1..Len(l) |-> l[f[i]]] : f \in [1..Len(l) -> 1..Len(l)]}

\* Permutations of a list
Perms(l) == {[i \in 1..Len(l) |-> l[f[i]]] : f \in Permutations(1..Len(l))}

\* the list with x put behind the last element that is not greater than x
RECURSIVE InsertByKey(_, _, _, _)
InsertByKey(l, h, x, i) ==
    IF i > Len(l) \/ song_lt(h[x], h[l[i]])
    THEN SubSeq(l, 1, i - 1) \o <<x>> \o SubSeq(l, i, Len(l))
    ELSE InsertByKey(l, h, x, i + 1)

RECURSIVE StableSort(_, _, _)
StableSort(l, h, acc) ==
    IF l = <<>> THEN acc
    ELSE StableSort(Tail(l), h, InsertByKey(acc, h, Head(l), 1))

\* list.sort(): ascending by __lt__ and stable.  When the list holds both
\* str-keyed and int-keyed songs a comparison raises TypeError and Python
\* leaves the list in an unspecified order of the same elements.
list_sort(l, h) ==
    IF \A i, j \in 1..Len(l) : Comparable(h[l[i]], h[l[j]])
    THEN {[l |-> StableSort(l, h, <<>>), err |-> "none"]}
    ELSE {[l |-> q, err |-> "TypeError"] : q \in Perms(l)}

\* list.remove(x): drops the first element that is x or compares equal to x
RECURSIVE list_remove_from(_, _, _, _)
list_remove_from(l, h, x, i) ==
    IF i > Len(l) THEN [l |-> l, err |-> "ValueError"]
    ELSE IF l[i] = x \/ song_eq(h[l[i]], h[x])
         THEN [l |-> SubSeq(l, 1, i - 1) \o SubSeq(l, i + 1, Len(l)), err |-> "none"]
         ELSE list_remove_from(l, h, x, i + 1)

list_remove(l, h, x) == list_remove_from(l, h, x, 1)

\* playlist.songs[song_to_delete]: a list subscripted with a Song object
\* raises TypeError (list indices must be integers or slices)
songs_getitem(l, h, song) == [val |-> 0, err |-> "TypeError"]

\* next((s for s in playlist if s.title == title), None)
RECURSIVE find_by_title(_, _, _, _)
find_by_title(l, h, title, i) ==
    IF i > Len(l) THEN None
    ELSE IF h[l[i]].title = title THEN l[i]
    ELSE find_by_title(l, h, title, i + 1)

\* for s in playlist: playlist.bst.insert(s)
RECURSIVE bst_rebuild(_, _, _, _)
bst_rebuild(t, h, l, i) ==
    LET \* the next round, after insert gave r
        rebuild_next(r) == IF r.err # "none" THEN r ELSE bst_rebuild(r.t, h, l, i + 1)
    IN  IF i > Len(l) THEN [t |-> t, err |-> "none"]
        ELSE rebuild_next(bst_insert(t, h, l[i]))

\* the playlist as a record, for the operations that run several steps
Playlist ==
    [heap |-> heap, songs_not_sorted |-> songs_not_sorted, songs |-> songs,
     bst |-> bst, rbt |-> rbt, avl |-> avl, total_time |-> total_time, err |-> "none"]

\* the body of the for loop of add_random_songs for one generated song e;
\* a statement is skipped once an earlier one raised
random_song_step(p, e) ==
    LET \* song = Song(..); songs_not_sorted.append(song); songs.append(song)
        appended(q) ==
            [q EXCEPT !.heap = Append(@, Song(e[1], e[2], e[3], e[4], e[5])),
                      !.songs_not_sorted = Append(@, Len(q.heap) + 1),
                      !.songs = Append(@, Len(q.heap) + 1)]
        into_bst(q, b) == [q EXCEPT !.bst = b.t, !.err = b.err]
        into_rbt(q, r) == [q EXCEPT !.rbt = r.t, !.err = r.err]
        into_avl(q, a) == [q EXCEPT !.avl = a.t, !.err = a.err]
        \* playlist.bst.insert(song)
        bst_inserted(q) ==
            IF q.err # "none" THEN q ELSE into_bst(q, bst_insert(q.bst, q.heap, Len(q.heap)))
        \* playlist.rbt.insert(song)
        rbt_inserted(q) ==
            IF q.err # "none" THEN q ELSE into_rbt(q, rbt_insert(q.rbt, q.heap, Len(q.heap)))
        \* playlist.avl.insert(song)
        avl_inserted(q) ==
            IF q.err # "none" THEN q ELSE into_avl(q, avl_insert(q.avl, q.heap, Len(q.heap)))
        \* playlist.total_time += song_time
        time_added(q) ==
            IF q.err # "none" THEN q ELSE [q EXCEPT !.total_time = @ + e[5]]
    IN  time_added(avl_inserted(rbt_inserted(bst_inserted(appended(p)))))

RECURSIVE random_song_loop(_, _, _)
random_song_loop(p, batch, c) ==
    IF c > Len(batch) \/ p.err # "none" THEN p
    ELSE random_song_loop(random_song_step(p, batch[c]), batch, c + 1)

\* the body of delete_song once the title was found in playlist.songs; a
\* statement is skipped once an earlier one raised
delete_found(p, song_to_delete, title) ==
    LET subtracted(q, g) ==
            IF g.err # "none" THEN [q EXCEPT !.err = g.err]
            ELSE [q EXCEPT !.total_time = @ - g.val]
        removed_not_sorted(q, u) ==
            IF u.err # "none" THEN [q EXCEPT !.err = u.err]
            ELSE [q EXCEPT !.songs_not_sorted = u.l]
        removed_sorted(q, v) ==
            IF v.err # "none" THEN [q EXCEPT !.err = v.err] ELSE [q EXCEPT !.songs = v.l]
        rebuilt(q, b) == [q EXCEPT !.bst = b.t, !.err = b.err]
        avl_deleted(q, a) == [q EXCEPT !.avl = a.t, !.err = a.err]
        rbt_deleted(q, r) ==
            [q EXCEPT !.rbt = r.t, !.err = IF r.err = "NotFound" THEN "none" ELSE r.err]
        \* song_time = playlist.songs[song_to_delete]; playlist.total_time -= song_time
        line_769(q) == subtracted(q, songs_getitem(q.songs, q.heap, song_to_delete))
        \* playlist.songs_not_sorted.remove(song_to_delete)
        line_771(q) ==
            IF q.err # "none" THEN q
            ELSE removed_not_sorted(q, list_remove(q.songs_not_sorted, q.heap, song_to_delete))
        \* playlist.songs.remove(song_to_delete)
        line_772(q) ==
            IF q.err # "none" THEN q
            ELSE removed_sorted(q, list_remove(q.songs, q.heap, song_to_delete))
        \* playlist.bst = BinarySearchTree(); for s in playlist: playlist.bst.insert(s)
        line_773(q) ==
            IF q.err # "none" THEN q ELSE rebuilt(q, bst_rebuild(BSTNew, q.heap, q.songs, 1))
        \* playlist.avl.delete(Song(title, "", "", ""))
        line_777(q) ==
            IF q.err # "none" THEN q ELSE avl_deleted(q, avl_delete(q.avl, q.heap, Probe(title)))
        \* playlist.rbt.delete(Song(title, "", "", ""))
        line_778(q) ==
            IF q.err # "none" THEN q ELSE rbt_deleted(q, rbt_delete(q.rbt, q.heap, Probe(title)))
    IN  line_778(line_777(line_773(line_772(line_771(line_769(p))))))

\* song.set_key(key) for every song of the list
set_keys(h, l, key) ==
    [i \in DOMAIN h |-> IF \E j \in 1..Len(l) : l[j] = i THEN set_key(h[i], key) ELSE h[i]]

\* the if/elif chain of sort_playlist over the entered sort method
sort_dispatch(sort_method, l, h) ==
    CASE sort_method = 1 -> merge_sort(l, h)
      [] sort_method = 2 -> quick_sort(l, h)
      [] sort_method = 3 -> selection_sort(l, h)
      [] sort_method = 4 -> insertion_sort(l, h)
      [] sort_method = 5 -> shell_sort(l, h)
      [] sort_method = 6 -> bubble_sort(l, h)
      [] sort_method = 7 -> optimized_bubble_sort(l, h)
      [] sort_method = 8 -> cocktail_sort(l, h)

\* ------------------------------------------------------ search algorithms
\* Every search yields [ret, err]: ret is the value returned (an index, -1, or
\* for linear_search_find_all_elements a list of indices), err the exception
\* that ended the call.  A recursive call that repeats the arguments of a call
\* it is nested in never returns; Python ends it with RecursionError.
Found(ret) == [ret |-> ret, err |-> "none"]

Raised(err) == [ret |-> -1, err |-> err]

\* for index, song in enumerate(songs)
RECURSIVE linear_search_from(_, _, _, _)
linear_search_from(l, h, song_to_find, index) ==
    IF index >= Len(l) THEN Found(-1)
    ELSE IF song_eq(h[At(l, index)], song_to_find) THEN Found(index)
    ELSE linear_search_from(l, h, song_to_find, index + 1)

linear_search(l, h, song_to_find) == linear_search_from(l, h, song_to_find, 0)

\* linear_search_find_all_from leaving the scan at the first match
RECURSIVE linear_search_find_all_from_first_match(_, _, _, _, _)
linear_search_find_all_from_first_match(l, h, song_to_find, index, indices) ==
    IF index >= Len(l) THEN Found(indices)
    ELSE IF song_eq(h[At(l, index)], song_to_find) THEN Found(Append(indices, index))
    ELSE IF ~Comparable(h[At(l, index)], song_to_find) THEN Raised("TypeError")
    ELSE IF song_gt(h[At(l, index)], song_to_find) THEN Found(indices)
    ELSE linear_search_find_all_from_first_match(l, h, song_to_find, index + 1, indices)

RECURSIVE linear_search_find_all_from(_, _, _, _, _)
linear_search_find_all_from(l, h, song_to_find, index, indices) ==
    IF index >= Len(l) THEN Found(indices)
    ELSE IF song_eq(h[At(l, index)], song_to_find)
         THEN linear_search_find_all_from(l, h, song_to_find, index + 1, Append(indices, index))
    ELSE IF ~Comparable(h[At(l, index)], song_to_find) THEN Raised("TypeError")
    ELSE IF song_gt(h[At(l, index)], song_to_find) THEN Found(indices)
    ELSE linear_search_find_all_from(l, h, song_to_find, index + 1, indices)

linear_search_find_all_elements(l, h, song_to_find) ==
    linear_search_find_all_from(l, h, song_to_find, 0, <<>>)

\* `low` and `high` as passed; `not high` holds for None and for 0 alike.
\* `calls` are the (low, high) of the calls this one is nested in.
RECURSIVE binary_search(_, _, _, _, _, _)
binary_search(l, h, song_to_find, low, high, calls) ==
    LET body(hi, mid) ==
            IF low > hi THEN Found(-1)
            ELSE IF song_eq(h[At(l, mid)], song_to_find) THEN Found(mid)
            ELSE IF ~Comparable(h[At(l, mid)], song_to_find) THEN Raised("TypeError")
            ELSE IF song_lt(h[At(l, mid)], song_to_find)
                 THEN binary_search(l, h, song_to_find, mid + 1, hi, calls \cup {<<low, high>>})
                 ELSE binary_search(l, h, song_to_find, low, mid - 1, calls \cup {<<low, high>>})
        from(hi) == body(hi, (low + hi) \div 2)
    IN  IF <<low, high>> \in calls THEN Raised("RecursionError")
        ELSE from(IF high = None THEN Len(l) - 1 ELSE high)

\* `lo` and `r` as passed (the source names them l and r); `not r` holds for
\* None and for 0 alike
RECURSIVE ternary_search(_, _, _, _, _, _)
ternary_search(l, h, song_to_find, lo, r, calls) ==
    LET body(rr, mid1, mid2) ==
            IF ~(rr >= lo) THEN Found(-1)
            ELSE IF song_eq(h[At(l, mid1)], song_to_find) THEN Found(mid1)
            ELSE IF song_eq(h[At(l, mid2)], song_to_find) THEN Found(mid2)
            ELSE IF ~Comparable(song_to_find, h[At(l, mid1)]) THEN Raised("TypeError")
            ELSE IF song_lt(song_to_find, h[At(l, mid1)])
                 THEN ternary_search(l, h, song_to_find, lo, mid1 - 1, calls \cup {<<lo, r>>})
            ELSE IF song_gt(song_to_find, h[At(l, mid2)])
                 THEN ternary_search(l, h, song_to_find, mid2 + 1, rr, calls \cup {<<lo, r>>})
            ELSE ternary_search(l, h, song_to_find, mid1 + 1, mid2 - 1, calls \cup {<<lo, r>>})
        from(rr) == body(rr, lo + (rr - lo) \div 3, rr - (rr - lo) \div 3)
    IN  IF <<lo, r>> \in calls THEN Raised("RecursionError")
        ELSE from(IF r = None THEN Len(l) - 1 ELSE r)

\* int(n ** 0.5)
IntSqrt(n) == CHOOSE k \in 0..n : k * k <= n /\ (k + 1) * (k + 1) > n

Min(a, b) == IF a < b THEN a ELSE b

\* the first while loop of jump_search; `gone` is TRUE when it returned -1
RECURSIVE jump_blocks(_, _, _, _, _)
jump_blocks(l, h, song_to_find, prev, step) ==
    IF prev < Len(l) THEN
        IF ~Comparable(h[At(l, Min(step, Len(l)) - 1)], song_to_find)
        THEN [prev |-> prev, step |-> step, gone |-> FALSE, err |-> "TypeError"]
        ELSE IF song_lt(h[At(l, Min(step, Len(l)) - 1)], song_to_find)
             THEN IF step >= Len(l)
                  THEN [prev |-> step, step |-> step + IntSqrt(Len(l)), gone |-> TRUE, err |-> "none"]
                  ELSE jump_blocks(l, h, song_to_find, step, step + IntSqrt(Len(l)))
             ELSE [prev |-> prev, step |-> step, gone |-> FALSE, err |-> "none"]
    ELSE [prev |-> prev, step |-> step, gone |-> FALSE, err |-> "none"]

\* jump_linear stepping over the songs equal to song_to_find as well
RECURSIVE jump_linear_le(_, _, _, _, _)
jump_linear_le(l, h, song_to_find, prev, step) ==
    IF prev < Min(step, Len(l)) THEN
        IF ~Comparable(h[At(l, prev)], song_to_find) THEN [prev |-> prev, err |-> "TypeError"]
        ELSE IF song_le(h[At(l, prev)], song_to_find)
             THEN jump_linear_le(l, h, song_to_find, prev + 1, step)
             ELSE [prev |-> prev, err |-> "none"]
    ELSE [prev |-> prev, err |-> "none"]

\* the second while loop of jump_search: the linear search within the block
RECURSIVE jump_linear(_, _, _, _, _)
jump_linear(l, h, song_to_find, prev, step) ==
    IF prev < Min(step, Len(l)) THEN
        IF ~Comparable(h[At(l, prev)], song_to_find) THEN [prev |-> prev, err |-> "TypeError"]
        ELSE IF song_lt(h[At(l, prev)], song_to_find)
             THEN jump_linear(l, h, song_to_find, prev + 1, step)
             ELSE [prev |-> prev, err |-> "none"]
    ELSE [prev |-> prev, err |-> "none"]

jump_search(l, h, song_to_find) ==
    LET check(w) ==
            IF w.err # "none" THEN Raised(w.err)
            ELSE IF w.prev < Len(l) /\ song_eq(h[At(l, w.prev)], song_to_find)
                 THEN Found(w.prev)
                 ELSE Found(-1)
        block(b) ==
            IF b.err # "none" THEN Raised(b.err)
            ELSE IF b.gone THEN Found(-1)
            ELSE check(jump_linear(l, h, song_to_find, b.prev, b.step))
    IN  block(jump_blocks(l, h, song_to_find, 0, IntSqrt(Len(l))))

\* the while loop of exponential_search
RECURSIVE exponential_range(_, _, _, _)
exponential_range(l, h, song_to_find, pos) ==
    IF pos < Len(l) THEN
        IF ~Comparable(h[At(l, pos)], song_to_find) THEN [pos |-> pos, err |-> "TypeError"]
        ELSE IF song_le(h[At(l, pos)], song_to_find)
             THEN exponential_range(l, h, song_to_find, pos * 2)
             ELSE [pos |-> pos, err |-> "none"]
    ELSE [pos |-> pos, err |-> "none"]

exponential_search(l, h, song_to_find) ==
    LET within(w) ==
            IF w.err # "none" THEN Raised(w.err)
            ELSE binary_search(l, h, song_to_find,
                               Max(0, w.pos \div 2), Min(w.pos, Len(l) - 1), {})
    IN  IF Len(l) = 0 THEN Raised("IndexError")
        ELSE IF song_eq(h[At(l, 0)], song_to_find) THEN Found(0)
        ELSE within(exponential_range(l, h, song_to_find, 1))

\* the first while loop of fibonaccianSearch: <<fibMMm2, fibMMm1, fibM>> with
\* fibM the smallest Fibonacci number greater than or equal to n
RECURSIVE fib_at_least(_, _, _, _)
fib_at_least(n, fibMMm2, fibMMm1, fibM) ==
    IF fibM < n THEN fib_at_least(n, fibMMm1, fibM, fibMMm1 + fibM)
    ELSE <<fibMMm2, fibMMm1, fibM>>

\* songs[i] for an int i: a negative i counts from the end of the list
Subscript(l, i) == IF i < 0 THEN l[Len(l) + i + 1] ELSE l[i + 1]

\* the second while loop of fibonaccianSearch; `returned` is TRUE when the
\* loop was left by `return i`
RECURSIVE fib_loop(_, _, _, _, _, _, _, _)
fib_loop(l, h, song_to_find, n, fibMMm2, fibMMm1, fibM, offset) ==
    LET probe(i) ==
            IF ~Comparable(h[Subscript(l, i)], song_to_find)
            THEN [ret |-> -1, err |-> "TypeError", returned |-> FALSE, fibMMm1 |-> fibMMm1]
            ELSE IF song_lt(h[Subscript(l, i)], song_to_find)
                 THEN fib_loop(l, h, song_to_find, n, fibMMm1 - fibMMm2, fibMMm2, fibMMm1, i)
            ELSE IF song_gt(h[Subscript(l, i)], song_to_find)
                 THEN fib_loop(l, h, song_to_find, n,
                               fibMMm2 - (fibMMm1 - fibMMm2), fibMMm1 - fibMMm2, fibMMm2, offset)
            ELSE [ret |-> i, err |-> "none", returned |-> TRUE, fibMMm1 |-> fibMMm1]
    IN  IF fibM > 1 THEN probe(Min(offset + fibMMm2, n - 1))
        ELSE [ret |-> -1, err |-> "none", returned |-> FALSE, fibMMm1 |-> fibMMm1]

\* fibonaccianSearch without the comparison with the last element
fibonaccianSearch_loop_only(l, h, song_to_find) ==
    LET last(w) == IF w.err # "none" THEN Raised(w.err)
                   ELSE IF w.returned THEN Found(w.ret) ELSE Found(-1)
        start(f) == last(fib_loop(l, h, song_to_find, Len(l), f[1], f[2], f[3], -1))
    IN  start(fib_at_least(Len(l), 0, 1, 1))

\* called with n left at its default, so n = len(songs)
fibonaccianSearch(l, h, song_to_find) ==
    LET last(w) ==
            IF w.err # "none" THEN Raised(w.err)
            ELSE IF w.returned THEN Found(w.ret)
            ELSE IF w.fibMMm1 = 0 THEN Found(-1)
            ELSE IF Len(l) = 0 THEN Raised("IndexError")
            ELSE IF song_eq(h[At(l, Len(l) - 1)], song_to_find) THEN Found(Len(l) - 1)
            ELSE Found(-1)
        start(f) == last(fib_loop(l, h, song_to_find, Len(l), f[1], f[2], f[3], -1))
    IN  start(fib_at_least(Len(l), 0, 1, 1))

\* the if/elif chain of list_based_search over the entered search method
search_dispatch(search_method, l, h, song_to_find) ==
    CASE search_method = 1 -> linear_search(l, h, song_to_find)
      [] search_method = 2 -> binary_search(l, h, song_to_find, 0, None, {})
      [] search_method = 3 -> ternary_search(l, h, song_to_find, 0, None, {})
      [] search_method = 4 -> jump_search(l, h, song_to_find)
      [] search_method = 5 -> exponential_search(l, h, song_to_find)
      [] search_method = 6 -> fibonaccianSearch(l, h, song_to_find)
      [] search_method = 7 -> linear_search_find_all_elements(l, h, song_to_find)

\* bfs(title, root): the while loop over the queue
RECURSIVE bfs_loop(_, _, _, _)
bfs_loop(t, h, queue, song) ==
    LET children(cur_node) ==
            (IF t.n[cur_node].left # None THEN <<t.n[cur_node].left>> ELSE <<>>)
            \o (IF t.n[cur_node].right # None THEN <<t.n[cur_node].right>> ELSE <<>>)
    IN  IF queue = <<>> THEN [node |-> None, err |-> "none"]
        ELSE IF song_eq(h[t.n[Head(queue)].song], song) THEN [node |-> Head(queue), err |-> "none"]
        ELSE bfs_loop(t, h, Tail(queue) \o children(Head(queue)), song)

bfs(t, h, song) ==
    IF t.root = None THEN [node |-> None, err |-> "none"]
    ELSE bfs_loop(t, h, <<t.root>>, song)

\* dfs(title, tree): the nodes in the order node_depth_first_iter yields them
RECURSIVE dfs_loop(_, _, _, _)
dfs_loop(t, h, stack, song) ==
    LET pushed(node) ==
            (IF t.n[node].left # None THEN <<t.n[node].left>> ELSE <<>>)
            \o (IF t.n[node].right # None THEN <<t.n[node].right>> ELSE <<>>)
    IN  IF stack = <<>> THEN [node |-> None, err |-> "none"]
        ELSE IF Head(stack) = None THEN dfs_loop(t, h, Tail(stack), song)
        ELSE IF song_eq(h[t.n[Head(stack)].song], song) THEN [node |-> Head(stack), err |-> "none"]
        ELSE dfs_loop(t, h, pushed(Head(stack)) \o Tail(stack), song)

dfs(t, h, song) == dfs_loop(t, h, <<t.root>>, song)

\* the if/elif chain of tree_based_search over the entered search method
tree_search_dispatch(search_method, p, title) ==
    CASE search_method = 1 -> avl_search(p.avl, p.heap, Probe(title))
      [] search_method = 2 -> bst_search(p.bst, p.heap, Probe(title))
      [] search_method = 3 -> rbt_search(p.rbt, p.heap, Probe(title))
      [] search_method = 4 -> bfs(p.bst, p.heap, Probe(title))
      [] search_method = 5 -> dfs(p.bst, p.heap, Probe(title))

\* song_to_find = Song("", "", "", "", key=key); setattr(song_to_find, key, search_value)
SongToFind(key, search_value) == [[Probe(0) EXCEPT !.key = key] EXCEPT ![key] = search_value]

\* list_based_search after the key was accepted: the list searched is
\* playlist.songs or, for another key than title, a deep copy of it re-keyed
\* and sorted with quick_sort; the stored songs are not touched
list_search(p, key, search_method, search_value) ==
    LET run(q, h2) ==
            IF q.err # "none" THEN Raised(q.err)
            ELSE IF search_method \notin 1..7 THEN Raised("InvalidMethod")
            ELSE search_dispatch(search_method, q.ret, h2, SongToFind(key, search_value))
        rekeyed(h2) == run(quick_sort(p.songs, h2), h2)
    IN  IF key # "title" THEN rekeyed(set_keys(p.heap, p.songs, key))
        ELSE run(Sorted(p.songs, "none"), p.heap)

\* no delete_song is waiting to be followed by an add_song
NoUndo == [stage |-> "none"]

\* os.path.isfile(file_path) is False: nothing was saved under the name
NoFile == [isfile |-> FALSE, total_time |-> 0, songs_not_sorted |-> <<>>]

\* ------------------------------------------------ state of the tree runs
\* the entity with title k that the tree runs insert
TreeSong(k) == Song(k, 1, 1, 1, 60)

\* the caller's Song objects: one per title
InitTrees ==
    /\ heap = [k \in 1..NTitles |-> TreeSong(k)]
    /\ songs_not_sorted = <<>>
    /\ songs = <<>>
    /\ bst = BSTNew
    /\ rbt = RBTNew
    /\ avl = AVLNew
    /\ total_time = 0
    /\ outcome = [op |-> "new", err |-> "none"]
    /\ undo = NoUndo
    /\ ninserts = 0
    /\ saved_file = NoFile

\* RedBlackTree.insert(Song) on a tree of its own
RBTInsert(k) ==
    /\ ninserts < MaxTreeOps
    /\ ninserts' = ninserts + 1
    /\ UNCHANGED saved_file
    /\ \E r \in {rbt_insert(rbt, heap, k)} :
           /\ rbt' = r.t
           /\ outcome' = [op |-> "rbt.insert", err |-> r.err]
    /\ UNCHANGED <<heap, songs_not_sorted, songs, bst, avl, total_time>>
    /\ undo' = NoUndo

\* RedBlackTree.delete(Song(title, "", "", ""))
RBTDelete(k) ==
    /\ \E r \in {rbt_delete(rbt, heap, Probe(k))} :
           /\ rbt' = r.t
           /\ outcome' = [op |-> "rbt.delete", err |-> r.err]
    /\ UNCHANGED <<heap, songs_not_sorted, songs, bst, avl, total_time, ninserts, saved_file>>
    /\ undo' = NoUndo

NextRBT == \E k \in 1..NTitles : RBTInsert(k) \/ RBTDelete(k)

SpecRBT == InitTrees /\ [][NextRBT]_vars

\* AVLTree.insert(Song) on a tree of its own
AVLInsert(k) ==
    /\ ninserts < MaxTreeOps
    /\ ninserts' = ninserts + 1
    /\ UNCHANGED saved_file
    /\ \E r \in {avl_insert(avl, heap, k)} :
           /\ avl' = r.t
           /\ outcome' = [op |-> "avl.insert", err |-> r.err]
    /\ UNCHANGED <<heap, songs_not_sorted, songs, bst, rbt, total_time>>
    /\ undo' = NoUndo

\* AVLTree.delete(Song(title, "", "", ""))
AVLDelete(k) ==
    /\ \E r \in {avl_delete(avl, heap, Probe(k))} :
           /\ avl' = r.t
           /\ outcome' = [op |-> "avl.delete", err |-> r.err]
    /\ UNCHANGED <<heap, songs_not_sorted, songs, bst, rbt, total_time, ninserts, saved_file>>
    /\ undo' = NoUndo

NextAVL == \E k \in 1..NTitles : AVLInsert(k) \/ AVLDelete(k)

SpecAVL == InitTrees /\ [][NextAVL]_vars

\* ------------------------------------------- the MusicApp operations
\* the songs a caller adds: (title, artist, album, genre, song_time) with
\* "A" = 1, "B" = 2, "C" = 3
Catalogue == { <<2, 1, 1, 1, 180>>, <<1, 2, 1, 1, 200>>, <<3, 2, 1, 1, 90>> }

\* the sort methods '1'..'8' and one entry that is none of them
SortMethods == 1..9

\* the fields entered for key_dict: a str field other than title (album and
\* genre are compared exactly as artist is), the int field, and one entry
\* that is not in key_dict
KeyInputs == {"title", "artist", "playtime", "?"}

\* add_playlist(name): the playlist is created empty
Init ==
    /\ heap = <<>>
    /\ songs_not_sorted = <<>>
    /\ songs = <<>>
    /\ bst = BSTNew
    /\ rbt = RBTNew
    /\ avl = AVLNew
    /\ total_time = 0
    /\ outcome = [op |-> "new", err |-> "none"]
    /\ undo = NoUndo
    /\ ninserts = 0
    /\ saved_file = NoFile

\* what delete_song followed by add_song is compared against: total_time and
\* the in-order entities of the three trees
Snapshot ==
    [total_time |-> total_time,
     bst |-> [i \in 1..Len(bst_inorder(bst)) |-> heap[bst_inorder(bst)[i]]],
     rbt |-> [i \in 1..Len(rbt_inorder(rbt)) |-> heap[rbt_inorder(rbt)[i]]],
     avl |-> [i \in 1..Len(avl_inorder(avl)) |-> heap[avl_inorder(avl)[i]]]]

add_song(e) ==
    /\ LET song == Len(heap) + 1
           h1   == Append(heap, Song(e[1], e[2], e[3], e[4], e[5]))
       IN  /\ heap' = h1
           /\ songs_not_sorted' = Append(songs_not_sorted, song)
           /\ \E srt \in list_sort(Append(songs, song), h1) :
               \E b \in {IF srt.err = "none" THEN bst_insert(bst, h1, song)
                          ELSE [t |-> bst, err |-> srt.err]} :
               \E r \in {IF b.err = "none" THEN rbt_insert(rbt, h1, song)
                          ELSE [t |-> rbt, err |-> b.err]} :
               \E a \in {IF r.err = "none" THEN avl_insert(avl, h1, song)
                          ELSE [t |-> avl, err |-> r.err]} :
                    /\ songs' = srt.l
                    /\ bst' = b.t
                    /\ rbt' = r.t
                    /\ avl' = a.t
                    /\ total_time' = IF a.err = "none" THEN total_time + e[5] ELSE total_time
                    /\ outcome' = [op |-> "add_song", err |-> a.err]
           /\ undo' = IF undo.stage = "deleted" /\ undo.song = h1[song]
                      THEN [undo EXCEPT !.stage = "readded"]
                      ELSE NoUndo
    /\ UNCHANGED <<ninserts, saved_file>>

add_random_songs(batch) ==
    /\ IF Len(batch) = 0
       THEN /\ outcome' = [op |-> "add_random_songs", err |-> "UnboundLocalError"]
            /\ UNCHANGED <<heap, songs_not_sorted, songs, bst, rbt, avl, total_time>>
       ELSE \E p \in {random_song_loop(Playlist, batch, 1)} :
            /\ heap' = p.heap
            /\ songs_not_sorted' = p.songs_not_sorted
            /\ bst' = p.bst
            /\ rbt' = p.rbt
            /\ avl' = p.avl
            /\ total_time' = p.total_time
            /\ IF p.err # "none"
               THEN /\ songs' = p.songs
                    /\ outcome' = [op |-> "add_random_songs", err |-> p.err]
               ELSE \E srt \in list_sort(p.songs, p.heap) :
                    /\ songs' = srt.l
                    /\ outcome' = [op |-> "add_random_songs", err |-> srt.err]
    /\ undo' = NoUndo
    /\ UNCHANGED <<ninserts, saved_file>>

delete_song(title) ==
    /\ \E song_to_delete \in {find_by_title(songs, heap, title, 1)} :
       IF song_to_delete # None
       THEN \E p \in {delete_found(Playlist, song_to_delete, title)} :
            /\ songs_not_sorted' = p.songs_not_sorted
            /\ songs' = p.songs
            /\ bst' = p.bst
            /\ rbt' = p.rbt
            /\ avl' = p.avl
            /\ total_time' = p.total_time
            /\ outcome' = [op |-> "delete_song", err |-> p.err]
            /\ undo' = [stage |-> "deleted", song |-> heap[song_to_delete], was |-> Snapshot]
       ELSE /\ outcome' = [op |-> "delete_song", err |-> "NotFound"]
            /\ undo' = NoUndo
            /\ UNCHANGED <<songs_not_sorted, songs, bst, rbt, avl, total_time>>
    /\ UNCHANGED <<heap, ninserts, saved_file>>

shuffle_playlist ==
    /\ songs_not_sorted' \in Perms(songs_not_sorted)
    /\ outcome' = [op |-> "shuffle_playlist", err |-> "none"]
    /\ undo' = NoUndo
    /\ UNCHANGED <<heap, songs, bst, rbt, avl, total_time, ninserts, saved_file>>

sort_playlist(sort_method, key) ==
    /\ IF key \notin Keys
       THEN /\ outcome' = [op |-> "sort_playlist", err |-> "InvalidInput"]
            /\ UNCHANGED <<heap, songs_not_sorted>>
       ELSE LET h1 == IF key # "title" THEN set_keys(heap, songs_not_sorted, key) ELSE heap IN
            IF sort_method \notin 1..8
            THEN /\ heap' = h1
                 /\ outcome' = [op |-> "sort_playlist", err |-> "InvalidMethod"]
                 /\ UNCHANGED songs_not_sorted
            ELSE \E r \in {sort_dispatch(sort_method, songs_not_sorted, h1)} :
                 IF r.err # "none" \/ r.none
                 THEN /\ heap' = h1
                      /\ songs_not_sorted' = r.l
                      /\ outcome' = [op |-> "sort_playlist", err |-> IF r.none THEN "TypeError" ELSE r.err]
                 ELSE /\ heap' = IF key # "title" THEN set_keys(h1, r.ret, "title") ELSE h1
                      /\ songs_not_sorted' = r.ret
                      /\ outcome' = [op |-> "sort_playlist", err |-> "none"]
    /\ undo' = NoUndo
    /\ UNCHANGED <<songs, bst, rbt, avl, total_time, ninserts, saved_file>>

\* the fields offered by the prompt of list_based_search: title, a str field
\* other than title, and one entry that is not in key_dict
SearchKeyInputs == {"title", "artist", "?"}

\* '1'..'7' and one entry that is none of them
ListSearchMethods == 1..8

\* '1'..'5' and one entry that is none of them
TreeSearchMethods == 1..6

list_based_search(key, search_method, search_value) ==
    /\ IF key \notin Keys
       THEN outcome' = [op |-> "list_based_search", err |-> "InvalidInput"]
       ELSE \E r \in {list_search(Playlist, key, search_method, search_value)} :
                outcome' = [op |-> "list_based_search", err |-> r.err]
    /\ undo' = NoUndo
    /\ UNCHANGED <<heap, songs_not_sorted, songs, bst, rbt, avl, total_time, ninserts, saved_file>>

tree_based_search(search_method, title) ==
    /\ IF search_method \notin 1..5
       THEN outcome' = [op |-> "tree_based_search", err |-> "InvalidMethod"]
       ELSE \E r \in {tree_search_dispatch(search_method, Playlist, title)} :
                outcome' = [op |-> "tree_based_search", err |-> r.err]
    /\ undo' = NoUndo
    /\ UNCHANGED <<heap, songs_not_sorted, songs, bst, rbt, avl, total_time, ninserts, saved_file>>

Batches == UNION {[1..c -> Catalogue] : c \in 0..MaxCount}

Next ==
    \/ \E e \in Catalogue : Len(heap) < MaxSongs /\ add_song(e)
    \/ \E batch \in Batches : Len(heap) + Len(batch) <= MaxSongs /\ add_random_songs(batch)
    \/ \E title \in 1..NTitles : delete_song(title)
    \/ shuffle_playlist
    \/ \E sort_method \in SortMethods, key \in KeyInputs : sort_playlist(sort_method, key)
    \/ \E key \in SearchKeyInputs, search_method \in ListSearchMethods, search_value \in 1..NTitles :
           list_based_search(key, search_method, search_value)
    \/ \E search_method \in TreeSearchMethods, title \in 1..NTitles :
           tree_based_search(search_method, title)

Spec == Init /\ [][Next]_vars

\* ------------------------------------------- saving and loading
\* the fields entered for key_dict in a run that saves and loads: title, a
\* str field other than title, and the int field
SaveKeyInputs == {"title", "artist", "playtime"}

\* the sort methods entered in such a run: one without a defect on short
\* lists and one entry that is none of '1'..'8'
SaveSortMethods == {1, 9}

\* the file holds, for the playlist, total_time and songs_not_sorted with the
\* instance attributes of each Song (title, artist, album, genre, playtime,
\* key); songs, avl, rbt and bst are written as null
save_playlists ==
    /\ saved_file' = [isfile |-> TRUE, total_time |-> total_time,
                      songs_not_sorted |-> [i \in 1..Len(songs_not_sorted) |->
                                               heap[songs_not_sorted[i]]]]
    /\ outcome' = [op |-> "save_playlists", err |-> "none"]
    /\ undo' = NoUndo
    /\ UNCHANGED <<heap, songs_not_sorted, songs, bst, rbt, avl, total_time, ninserts>>

\* Song(**song) with the attributes read from the file
SongFromFile(song) ==
    [Song(song.title, song.artist, song.album, song.genre, song.playtime)
        EXCEPT !.key = song.key]

\* the for loop of load_playlists over the permuted playlist.songs; a
\* statement is skipped once an earlier one raised
RECURSIVE load_insert_loop(_, _, _)
load_insert_loop(p, perm, i) ==
    LET into_bst(q, b) == [q EXCEPT !.bst = b.t, !.err = b.err]
        into_rbt(q, r) == [q EXCEPT !.rbt = r.t, !.err = r.err]
        into_avl(q, a) == [q EXCEPT !.avl = a.t, !.err = a.err]
        bst_inserted(q) ==
            IF q.err # "none" THEN q ELSE into_bst(q, bst_insert(q.bst, q.heap, perm[i]))
        rbt_inserted(q) ==
            IF q.err # "none" THEN q ELSE into_rbt(q, rbt_insert(q.rbt, q.heap, perm[i]))
        avl_inserted(q) ==
            IF q.err # "none" THEN q ELSE into_avl(q, avl_insert(q.avl, q.heap, perm[i]))
    IN  IF i > Len(perm) \/ p.err # "none" THEN p
        ELSE load_insert_loop(avl_inserted(rbt_inserted(bst_inserted(p))), perm, i + 1)

\* a new Playlist takes the place of the loaded name once it is complete;
\* the Song objects of playlist.songs are references 1..n, those of
\* playlist.songs_not_sorted are n + 1..2n, and the objects of the replaced
\* playlist are no longer referenced
load_playlists ==
    /\ IF ~saved_file.isfile
       THEN /\ outcome' = [op |-> "load_playlists", err |-> "NoFile"]
            /\ UNCHANGED <<heap, songs_not_sorted, songs, bst, rbt, avl, total_time>>
       ELSE \E n \in {Len(saved_file.songs_not_sorted)} :
            \E h1 \in {[i \in 1..(2 * n) |->
                          SongFromFile(saved_file.songs_not_sorted[((i - 1) % n) + 1])]} :
            \E srt \in list_sort([i \in 1..n |-> i], h1) :
            \E perm \in Perms(srt.l) :
            \E p \in {load_insert_loop([heap |-> h1, bst |-> BSTNew, rbt |-> RBTNew,
                                        avl |-> AVLNew, err |-> srt.err], perm, 1)} :
                IF p.err # "none"
                THEN /\ outcome' = [op |-> "load_playlists", err |-> p.err]
                     /\ UNCHANGED <<heap, songs_not_sorted, songs, bst, rbt, avl, total_time>>
                ELSE /\ heap' = h1
                     /\ total_time' = saved_file.total_time
                     /\ songs' = srt.l
                     /\ songs_not_sorted' = [i \in 1..n |-> n + i]
                     /\ bst' = p.bst
                     /\ rbt' = p.rbt
                     /\ avl' = p.avl
                     /\ outcome' = [op |-> "load_playlists", err |-> "none"]
    /\ undo' = NoUndo
    /\ UNCHANGED <<ninserts, saved_file>>

NextSave ==
    \/ \E e \in Catalogue : Len(songs_not_sorted) < MaxSongs /\ add_song(e)
    \/ \E sort_method \in SaveSortMethods, key \in SaveKeyInputs : sort_playlist(sort_method, key)
    \/ save_playlists
    \/ load_playlists

SpecSave == Init /\ [][NextSave]_vars

\* ------------------------- the three trees fed with the same entities
\* insert(Song) of a new entity into a BinarySearchTree, a RedBlackTree and an
\* AVLTree that started empty
InsertAll(k) ==
    /\ Len(heap) < MaxTreeOps
    /\ \E h1 \in {Append(heap, TreeSong(k))} :
       \E b \in {bst_insert(bst, h1, Len(h1))} :
       \E r \in {rbt_insert(rbt, h1, Len(h1))} :
       \E a \in {avl_insert(avl, h1, Len(h1))} :
           /\ heap' = h1
           /\ bst' = b.t
           /\ rbt' = r.t
           /\ avl' = a.t
           /\ outcome' = [op |-> "insert", err |-> a.err]
    /\ UNCHANGED <<songs_not_sorted, songs, total_time, undo, ninserts, saved_file>>

\* search(Song(title, "", "", "")) on each of the three trees; title 0 is ""
TreeSearch(title) ==
    /\ \E b \in {bst_search(bst, heap, Probe(title))} :
       \E r \in {rbt_search(rbt, heap, Probe(title))} :
       \E a \in {avl_search(avl, heap, Probe(title))} :
           outcome' = [op |-> "tree.search", title |-> title, bst |-> b, rbt |-> r, avl |-> a]
    /\ UNCHANGED <<heap, songs_not_sorted, songs, bst, rbt, avl, total_time, undo, ninserts, saved_file>>

NextIns ==
    \/ \E k \in 1..NTitles : InsertAll(k)
    \/ \E title \in 0..NTitles : TreeSearch(title)

SpecIns == Init /\ [][NextIns]_vars

\* -------------- the playlist and direct calls of its red-black and AVL tree
\* the songs a library client adds; title 3 is never in the playlist
LibCatalogue == { <<2, 1, 1, 1, 180>>, <<1, 2, 1, 1, 200>> }

NextLib ==
    \/ \E e \in LibCatalogue : Len(heap) < MaxLibSongs /\ add_song(e)
    \/ \E title \in 1..NTitles : delete_song(title)
    \/ \E k \in 1..NTitles : RBTDelete(k)
    \/ \E k \in 1..NTitles : AVLDelete(k)

SpecLib == Init /\ [][NextLib]_vars

\* ------------------------------------ the sort methods called on a list
\* a caller's list of Song objects, in any order and with equal titles
InitSort ==
    \E n \in 0..MaxSortLen : \E titles \in [1..n -> 1..NTitles] :
        /\ heap = [i \in 1..n |-> TreeSong(titles[i])]
        /\ songs_not_sorted = [i \in 1..n |-> i]
        /\ songs = <<>>
        /\ bst = BSTNew
        /\ rbt = RBTNew
        /\ avl = AVLNew
        /\ total_time = 0
        /\ outcome = [op |-> "new", err |-> "none"]
        /\ undo = NoUndo
        /\ ninserts = 0
        /\ saved_file = NoFile

\* result = self.<sort>(songs) on the caller's list songs_not_sorted; the
\* returned list is kept in songs (empty when None was returned)
SortCall(sort_method) ==
    /\ \E r \in {sort_dispatch(sort_method, songs_not_sorted, heap)} :
           /\ songs_not_sorted' = r.l
           /\ songs' = IF r.none THEN <<>> ELSE r.ret
           /\ outcome' = [op |-> "sort", method |-> sort_method, input |-> songs_not_sorted,
                          none |-> r.none, err |-> r.err]
    /\ UNCHANGED <<heap, bst, rbt, avl, total_time, undo, ninserts, saved_file>>

NextSort == \E sort_method \in 1..8 : SortCall(sort_method)

SpecSort == InitSort /\ [][NextSort]_vars

\* ---------------------------- the search methods called on a sorted list
\* a caller's list of Song objects in ascending title order
InitSearch ==
    \E n \in 0..MaxSearchLen :
    \E titles \in {f \in [1..n -> 1..NTitles] : \A i \in 1..(n - 1) : f[i] <= f[i + 1]} :
        /\ heap = [i \in 1..n |-> TreeSong(titles[i])]
        /\ songs = [i \in 1..n |-> i]
        /\ songs_not_sorted = <<>>
        /\ bst = BSTNew
        /\ rbt = RBTNew
        /\ avl = AVLNew
        /\ total_time = 0
        /\ outcome = [op |-> "new", err |-> "none"]
        /\ undo = NoUndo
        /\ ninserts = 0
        /\ saved_file = NoFile

\* result = self.<search>(songs, Song(title, "", "", "")) on the caller's list
SearchCall(search_method, title) ==
    /\ \E r \in {search_dispatch(search_method, songs, heap, Probe(title))} :
           outcome' = [op |-> "search", method |-> search_method, title |-> title,
                       ret |-> r.ret, err |-> r.err]
    /\ UNCHANGED <<heap, songs_not_sorted, songs, bst, rbt, avl, total_time, undo, ninserts, saved_file>>

NextSearch == \E search_method \in 1..7, title \in 0..(NTitles + 1) : SearchCall(search_method, title)

SpecSearch == InitSearch /\ [][NextSearch]_vars

\* ----- AVL properties
AVLNodes == NodesFrom(avl.n, None, avl.root)

RECURSIVE Height(_, _)
\* the height of the subtree below a node, counted on the tree itself
Height(t, node) ==
    IF node = None THEN 0
    ELSE 1 + Max(Height(t, t.n[node].left), Height(t, t.n[node].right))

BalanceOf(t, i) == Height(t, t.n[i].left) - Height(t, t.n[i].right)

\* C3: after any interleaving of AVLTree.insert and AVLTree.delete every node
\* has a balance factor (left height minus right height) of -1, 0 or 1
C3_AVLBalanced == \A i \in AVLNodes : BalanceOf(avl, i) \in {-1, 0, 1}

\* ----- red-black properties
RBNodes == NodesFrom(rbt.n, NIL, rbt.root)

RECURSIVE BlackHeights(_, _)
\* the set of black counts over all paths from node down to the sentinel
BlackHeights(t, node) ==
    IF node = NIL THEN {1}
    ELSE LET below == BlackHeights(t, t.n[node].left) \cup BlackHeights(t, t.n[node].right)
         IN  {b + (IF t.n[node].color = "BLACK" THEN 1 ELSE 0) : b \in below}

RootBlack == rbt.n[rbt.root].color = "BLACK"

SentinelBlack == rbt.n[NIL].color = "BLACK" /\ rbt.n[NIL].song = None

NoRedRed ==
    \A i \in RBNodes :
        rbt.n[i].color = "RED" =>
            /\ rbt.n[rbt.n[i].left].color = "BLACK"
            /\ rbt.n[rbt.n[i].right].color = "BLACK"

EqualBlackHeight == Cardinality(BlackHeights(rbt, rbt.root)) = 1

\* C2: after any interleaving of RedBlackTree.insert and RedBlackTree.delete
\* the root is BLACK, the sentinel is BLACK and holds no value, no RED node
\* has a RED child, and all root-to-sentinel paths count the same number of
\* BLACK nodes
C2_RedBlackInvariants == RootBlack /\ SentinelBlack /\ NoRedRed /\ EqualBlackHeight

\* ----- vocabulary of the properties
Range(seq) == {seq[i] : i \in 1..Len(seq)}

CountIn(seq, x) == Cardinality({i \in 1..Len(seq) : seq[i] = x})

\* the two sequences hold the same elements the same number of times
SameBag(a, b) == \A x \in Range(a) \cup Range(b) : CountIn(a, x) = CountIn(b, x)

\* the values the songs of a list are compared by
KeySeq(h, seq) == [i \in 1..Len(seq) |-> KeyVal(h[seq[i]])]

TitleSeq(h, seq) == [i \in 1..Len(seq) |-> h[seq[i]].title]

NonDecreasing(ks) == \A i \in 1..(Len(ks) - 1) : ks[i] <= ks[i + 1]

RECURSIVE SumTime(_, _)
SumTime(h, seq) == IF seq = <<>> THEN 0 ELSE h[Head(seq)].playtime + SumTime(h, Tail(seq))

\* every Song object created so far, in creation order
AllSongs == [i \in 1..Len(heap) |-> i]

\* what the caller of the playlist can observe besides the result of the call
views == <<heap, songs_not_sorted, songs, bst, rbt, avl, total_time>>

\* ----- C1 (SpecIns)
\* C1: after inserting any entities, in any order and with equal keys among
\* them, into a fresh BinarySearchTree, RedBlackTree and AVLTree, the in-order
\* traversal of each tree holds exactly the inserted entities and its key
\* sequence is ascending (non-decreasing); the three key sequences are equal
C1_InOrderSorted ==
    /\ \A tr \in {bst_inorder(bst), rbt_inorder(rbt), avl_inorder(avl)} :
          /\ SameBag(tr, AllSongs)
          /\ Len(tr) = Len(heap)
          /\ NonDecreasing(KeySeq(heap, tr))
    /\ KeySeq(heap, bst_inorder(bst)) = KeySeq(heap, rbt_inorder(rbt))
    /\ KeySeq(heap, rbt_inorder(rbt)) = KeySeq(heap, avl_inorder(avl))

\* five entities were inserted out of order and two of them have equal keys
C1_Witness ==
    /\ outcome.op = "insert"
    /\ Len(heap) >= 5
    /\ \E i, j \in 1..Len(heap) : i < j /\ heap[i].title > heap[j].title
    /\ \E i, j \in 1..Len(heap) : i # j /\ heap[i].title = heap[j].title
    /\ Len(avl_inorder(avl)) = Len(heap)

\* ----- C2 (SpecRBT): C2_RedBlackInvariants
\* a delete of a stored entity returned and left a tree of four or more nodes,
\* one of them RED
C2_Witness ==
    /\ outcome = [op |-> "rbt.delete", err |-> "none"]
    /\ Cardinality(RBNodes) >= 4
    /\ \E i \in RBNodes : rbt.n[i].color = "RED"

\* ----- C4 (Spec)
ViewLists ==
    {songs_not_sorted, songs, bst_inorder(bst), rbt_inorder(rbt), avl_inorder(avl)}

\* C4: total_time is the sum of the playtime of exactly the songs that are in
\* the playlist, whichever of the five views is asked
C4_TotalTimeIsSum == \A v \in ViewLists : total_time = SumTime(heap, v)

\* ----- C5 (Spec)
\* the last call returned to its caller instead of raising
Returned == outcome.err \in {"none", "NotFound", "InvalidInput", "InvalidMethod"}

\* C5: after every completed add_song, add_random_songs, delete_song,
\* shuffle_playlist or sort_playlist call the five views hold the same
\* multiset of entities
C5_ViewsSameEntities == Returned => \A v, w \in ViewLists : SameBag(v, w)

\* ----- C6 (Spec)
\* the entity delete_song picks for a title: the first one in playlist.songs
Present(title) == find_by_title(songs, heap, title, 1) # None

\* the list without one occurrence of x: same elements, x once less
RemovedFrom(before, after, x) ==
    /\ Len(after) = Len(before) - 1
    /\ CountIn(after, x) = CountIn(before, x) - 1
    /\ \A y \in Range(before) \ {x} : CountIn(after, y) = CountIn(before, y)

\* C6: delete_song with the title of a present entity removes that entity
\* from both lists and from the three trees and takes its playtime off
\* total_time
C6_DeletePresent ==
    [][\A title \in 1..NTitles :
          (delete_song(title) /\ Present(title)) =>
              LET x == find_by_title(songs, heap, title, 1) IN
              /\ RemovedFrom(songs_not_sorted, songs_not_sorted', x)
              /\ RemovedFrom(songs, songs', x)
              /\ RemovedFrom(bst_inorder(bst), bst_inorder(bst'), x)
              /\ RemovedFrom(rbt_inorder(rbt), rbt_inorder(rbt'), x)
              /\ RemovedFrom(avl_inorder(avl), avl_inorder(avl'), x)
              /\ total_time' = total_time - heap[x].playtime]_vars

\* ----- C7 (Spec)
\* the list with x added: same elements, x once more
AddedTo(before, after, x) == RemovedFrom(after, before, x)

\* C7: add_song(e) appends e to songs_not_sorted, makes songs the previous
\* songs plus e in ascending title order, inserts e into the three trees and
\* adds e's playtime to total_time
C7_AddSong ==
    [][\A e \in Catalogue :
          add_song(e) =>
              LET x == Len(heap') IN
              /\ heap'[x] = Song(e[1], e[2], e[3], e[4], e[5])
              /\ songs_not_sorted' = Append(songs_not_sorted, x)
              /\ AddedTo(songs, songs', x)
              /\ NonDecreasing(TitleSeq(heap', songs'))
              /\ AddedTo(bst_inorder(bst), bst_inorder(bst'), x)
              /\ AddedTo(rbt_inorder(rbt), rbt_inorder(rbt'), x)
              /\ AddedTo(avl_inorder(avl), avl_inorder(avl'), x)
              /\ total_time' = total_time + e[5]]_vars

\* ----- C8 (Spec)
\* C8: an add_song or delete_song call, returning or raising, leaves either
\* all five views and total_time changed by the operation or all of them as
\* they were
C8_AddDeleteAtomic ==
    [][/\ \A e \in Catalogue :
             add_song(e) =>
                 LET x == Len(heap') IN
                 \/ /\ AddedTo(songs_not_sorted, songs_not_sorted', x)
                    /\ AddedTo(songs, songs', x)
                    /\ AddedTo(bst_inorder(bst), bst_inorder(bst'), x)
                    /\ AddedTo(rbt_inorder(rbt), rbt_inorder(rbt'), x)
                    /\ AddedTo(avl_inorder(avl), avl_inorder(avl'), x)
                    /\ total_time' = total_time + e[5]
                 \/ UNCHANGED <<songs_not_sorted, songs, bst, rbt, avl, total_time>>
       /\ \A title \in 1..NTitles :
             (delete_song(title) /\ Present(title)) =>
                 LET x == find_by_title(songs, heap, title, 1) IN
                 \/ /\ RemovedFrom(songs_not_sorted, songs_not_sorted', x)
                    /\ RemovedFrom(songs, songs', x)
                    /\ RemovedFrom(bst_inorder(bst), bst_inorder(bst'), x)
                    /\ RemovedFrom(rbt_inorder(rbt), rbt_inorder(rbt'), x)
                    /\ RemovedFrom(avl_inorder(avl), avl_inorder(avl'), x)
                    /\ total_time' = total_time - heap[x].playtime
                 \/ UNCHANGED <<songs_not_sorted, songs, bst, rbt, avl, total_time>>]_vars

\* ----- C9 (SpecLib)
InRBT(k) == \E i \in RBNodes : song_eq(heap[rbt.n[i].song], Probe(k))

InAVL(k) == \E i \in AVLNodes : song_eq(heap[avl.n[i].song], Probe(k))

\* C9: delete_song with a title that is not in the playlist, RedBlackTree.delete
\* and AVLTree.delete with a probe that is not in the tree signal not-found
\* (the printed message, resp. Exception("Value not stored in tree")) and
\* leave the views, the trees and total_time as they were
C9_AbsentDeleteNoMutation ==
    [][\A k \in 1..NTitles :
          /\ (delete_song(k) /\ ~Present(k)) =>
                 (outcome'.err = "NotFound" /\ UNCHANGED views)
          /\ (RBTDelete(k) /\ ~InRBT(k)) =>
                 (outcome'.err = "NotFound" /\ UNCHANGED views)
          /\ (AVLDelete(k) /\ ~InAVL(k)) =>
                 (outcome'.err = "Exception" /\ UNCHANGED views)]_vars

\* AVLTree.delete just raised for an absent probe on a playlist whose lists
\* and trees hold entities
C9_Witness ==
    /\ outcome = [op |-> "avl.delete", err |-> "Exception"]
    /\ Cardinality(AVLNodes) >= 2
    /\ Cardinality(RBNodes) >= 2
    /\ Len(songs) >= 2

\* ----- C10 (Spec)
\* C10: delete_song(e.title) immediately followed by add_song of an entity
\* equal to e restores total_time and the in-order traversals of the three
\* trees
C10_DeleteThenAddRestores ==
    undo.stage = "readded" =>
        /\ total_time = undo.was.total_time
        /\ Snapshot = undo.was

\* ----- C11 (Spec)
\* C11: shuffle_playlist replaces songs_not_sorted by a permutation of itself
\* and leaves the Song objects, songs, the three trees and total_time as they
\* were (the name of the playlist is assigned in Playlist.__init__ only)
C11_ShuffleIsPermutation ==
    [][shuffle_playlist =>
          /\ Len(songs_not_sorted') = Len(songs_not_sorted)
          /\ SameBag(songs_not_sorted', songs_not_sorted)
          /\ UNCHANGED <<heap, songs, bst, rbt, avl, total_time>>]_vars

\* shuffle_playlist returned on a playlist of two songs and left the later
\* added song in front
C11_Witness ==
    /\ outcome.op = "shuffle_playlist"
    /\ Len(songs_not_sorted) = 2
    /\ songs_not_sorted[1] > songs_not_sorted[2]
    /\ Len(songs) = 2
    /\ total_time > 0

\* ----- C12 (Spec)
\* the songs held by the sorted view and the three trees
Indexed == Range(songs) \cup Range(bst_inorder(bst)) \cup Range(rbt_inorder(rbt))
           \cup Range(avl_inorder(avl))

\* C12: between the calls of add_song, sort_playlist, list_based_search,
\* tree_based_search and shuffle_playlist every song of the sorted view and
\* of the three trees compares by "title", the key under which add_song
\* sorted and inserted it, and these views are ascending under that key
C12_ActiveKeyIsBuildKey ==
    /\ \A i \in Indexed : heap[i].key = "title"
    /\ \A v \in {songs, bst_inorder(bst), rbt_inorder(rbt), avl_inorder(avl)} :
          NonDecreasing(KeySeq(heap, v))

\* ----- C13 (Spec)
\* C13: sort_playlist with a sort method that is none of '1'..'8' (and any
\* field of key_dict), list_based_search with a search method that is none of
\* '1'..'7' and tree_based_search with a search method that is none of
\* '1'..'5' report the invalid method and leave the Song objects (their
\* active keys), both lists, the three trees and total_time as they were
C13_InvalidMethodNoChange ==
    [][/\ \A sort_method \in SortMethods \ (1..8), key \in KeyInputs \cap Keys :
             sort_playlist(sort_method, key) =>
                 (outcome'.err = "InvalidMethod" /\ UNCHANGED views)
       /\ \A search_method \in ListSearchMethods \ (1..7), key \in SearchKeyInputs \cap Keys,
             search_value \in 1..NTitles :
             list_based_search(key, search_method, search_value) =>
                 (outcome'.err = "InvalidMethod" /\ UNCHANGED views)
       /\ \A search_method \in TreeSearchMethods \ (1..5), title \in 1..NTitles :
             tree_based_search(search_method, title) =>
                 (outcome'.err = "InvalidMethod" /\ UNCHANGED views)]_vars

\* ----- C14 (SpecSort)
\* C14: each of the eight sort methods returns a list that holds the songs of
\* its argument, each as often as the argument does, in ascending
\* (non-decreasing) key order; for an argument that is already ascending the
\* key sequence returned is the key sequence of the argument
C14_SortsAscendingPermutation ==
    outcome.op = "sort" =>
        /\ outcome.err = "none"
        /\ ~outcome.none
        /\ Len(songs) = Len(outcome.input)
        /\ SameBag(songs, outcome.input)
        /\ NonDecreasing(KeySeq(heap, songs))
        /\ NonDecreasing(KeySeq(heap, outcome.input)) =>
               KeySeq(heap, songs) = KeySeq(heap, outcome.input)

\* ----- C15 (SpecSort)
\* the position of song x in list l
IndexOf(l, x) == CHOOSE i \in 1..Len(l) : l[i] = x

\* C15: in the list returned by merge_sort and by insertion_sort two songs
\* with equal keys stand in the order in which they stood in the argument
C15_MergeInsertionStable ==
    (outcome.op = "sort" /\ outcome.method \in {1, 4} /\ ~outcome.none) =>
        \A i, j \in 1..Len(songs) :
            (i < j /\ song_eq(heap[songs[i]], heap[songs[j]])) =>
                IndexOf(outcome.input, songs[i]) < IndexOf(outcome.input, songs[j])

\* ----- C16 .. C20 (SpecSearch)
\* the last call was the search method m on a non-empty list
Searched(m) == outcome.op = "search" /\ outcome.method = m /\ Len(songs) > 0

\* the title searched for is the title of a song of the list
TargetPresent == \E i \in 1..Len(songs) : song_eq(heap[songs[i]], Probe(outcome.title))

\* the call returned an index of the list whose song equals the target
ReturnedMatch ==
    /\ outcome.err = "none"
    /\ outcome.ret \in 0..(Len(songs) - 1)
    /\ song_eq(heap[At(songs, outcome.ret)], Probe(outcome.title))

\* the call returned -1
ReturnedNotFound == outcome.err = "none" /\ outcome.ret = -1

\* C16: binary_search with its default bounds, on a non-empty ascending list
\* and a target equal to one of its songs, returns an index i with
\* songs[i] == target
C16_BinarySearchFinds == (Searched(2) /\ TargetPresent) => ReturnedMatch

\* C17: ternary_search with its default bounds, on a non-empty ascending list
\* and a target equal to one of its songs, returns an index i with
\* songs[i] == target
C17_TernarySearchFinds == (Searched(3) /\ TargetPresent) => ReturnedMatch

\* C18: jump_search and exponential_search, on a non-empty ascending list and
\* a target equal to one of its songs, return an index i with
\* songs[i] == target
C18_JumpExponentialFind == ((Searched(4) \/ Searched(5)) /\ TargetPresent) => ReturnedMatch

\* jump_search found a target in the last block of a list of five or more
\* songs in which the target's title occurs twice
C18_Witness ==
    /\ Searched(4)
    /\ Len(songs) >= 5
    /\ outcome.ret >= 4
    /\ Cardinality({i \in 1..Len(songs) : heap[songs[i]].title = outcome.title}) >= 2
    /\ ReturnedMatch

\* the Fibonacci numbers a list length is compared with
IsFibonacci(n) == n \in {1, 2, 3, 5, 8, 13}

\* C19: fibonaccianSearch, on a non-empty ascending list of any length and a
\* target equal to one of its songs, returns an index i with
\* songs[i] == target, also for the last song of a list whose length is no
\* Fibonacci number
C19_FibonacciSearchFinds == (Searched(6) /\ TargetPresent) => ReturnedMatch

\* fibonaccianSearch returned the last index of a list whose length is no
\* Fibonacci number, for a target that only the last song equals
C19_Witness ==
    /\ Searched(6)
    /\ ~IsFibonacci(Len(songs))
    /\ outcome.ret = Len(songs) - 1
    /\ \A i \in 1..(Len(songs) - 1) : heap[songs[i]].title < outcome.title
    /\ ReturnedMatch

\* C20: binary_search, ternary_search, jump_search, exponential_search and
\* fibonaccianSearch, on a non-empty ascending list and a target equal to none
\* of its songs (smaller than all, larger than all or between two
\* neighbours), return -1
C20_AbsentNotFound ==
    ((\E m \in 2..6 : Searched(m)) /\ ~TargetPresent) => ReturnedNotFound

\* ----- C21 (SpecSearch)
\* the song at Python index i of the list equals the target of the last call
MatchesAt(i) == song_eq(heap[At(songs, i)], Probe(outcome.title))

\* all indices whose song equals the target, in increasing order
MatchingIndices == SelectSeq([i \in 1..Len(songs) |-> i - 1], MatchesAt)

\* C21: linear_search_find_all_elements on an ascending list returns the list
\* of all indices i with songs[i] == target in increasing order, the empty
\* list when there is none; leaving the scan at the first greater song
\* omits no index
C21_FindAllExact ==
    (outcome.op = "search" /\ outcome.method = 7) =>
        (outcome.err = "none" /\ outcome.ret = MatchingIndices)

\* two indices were returned and the scan was left at a greater song that
\* follows them
C21_Witness ==
    /\ outcome.op = "search"
    /\ outcome.method = 7
    /\ Len(outcome.ret) >= 2
    /\ outcome.ret[1] >= 1
    /\ outcome.ret[Len(outcome.ret)] + 2 < Len(songs)

\* ----- C22 (SpecSearch)
\* C22: linear, binary, ternary, jump, exponential and Fibonacci search
\* return -1 on an empty list; on a list of one song they return 0 if the
\* song equals the target and -1 otherwise
C22_SmallListsSearch ==
    (outcome.op = "search" /\ outcome.method \in 1..6 /\ Len(songs) <= 1) =>
        /\ outcome.err = "none"
        /\ outcome.ret = IF Len(songs) = 1 /\ MatchesAt(0) THEN 0 ELSE -1

\* ----- C23 (Spec)
\* C23: on a list of no or one song each of the eight sort methods returns
\* that list, and sort_playlist on a playlist of no or one song returns
\* without raising for every sort method and every field of key_dict
C23_SmallListsSort ==
    [][\A sort_method \in 1..8, key \in KeyInputs \cap Keys :
          (sort_playlist(sort_method, key) /\ Len(songs_not_sorted) <= 1) =>
              /\ ~sort_dispatch(sort_method, songs_not_sorted, heap).none
              /\ sort_dispatch(sort_method, songs_not_sorted, heap).ret = songs_not_sorted
              /\ outcome'.err = "none"
              /\ songs_not_sorted' = songs_not_sorted]_vars

\* ----- C24 (SpecLib)
\* C24: a RedBlackTree.delete or AVLTree.delete that does not complete leaves
\* the tree with the entities it had, in ascending in-order sequence and with
\* its balancing invariants
C24_FailedDeleteKeepsTree ==
    [][\A k \in 1..NTitles :
          /\ (RBTDelete(k) /\ outcome'.err # "none") =>
                 /\ SameBag(rbt_inorder(rbt'), rbt_inorder(rbt))
                 /\ NonDecreasing(KeySeq(heap', rbt_inorder(rbt')))
                 /\ C2_RedBlackInvariants'
          /\ (AVLDelete(k) /\ outcome'.err # "none") =>
                 /\ SameBag(avl_inorder(avl'), avl_inorder(avl))
                 /\ NonDecreasing(KeySeq(heap', avl_inorder(avl')))
                 /\ C3_AVLBalanced']_vars

\* ----- C25 (SpecIns)
\* what search gave on a tree: no exception, a node exactly when an inserted
\* entity equals the probe, and then a node whose entity equals the probe
FoundIff(t, r) ==
    /\ r.err = "none"
    /\ r.node # None <=> \E i \in 1..Len(heap) : song_eq(heap[i], Probe(outcome.title))
    /\ r.node # None => song_eq(heap[t.n[r.node].song], Probe(outcome.title))

\* C25: after any inserts, equal titles among them, search(probe) on the
\* BinarySearchTree, the RedBlackTree and the AVLTree returns a node whose
\* entity equals the probe if an inserted entity equals it and None if not,
\* also on the empty trees
C25_TreeSearchFindsIff ==
    outcome.op = "tree.search" =>
        (FoundIff(bst, outcome.bst) /\ FoundIff(rbt, outcome.rbt) /\ FoundIff(avl, outcome.avl))

\* search found, below the root of the red-black and of the AVL tree, a title
\* that was inserted twice among five or more entities
C25_Witness ==
    /\ outcome.op = "tree.search"
    /\ Len(heap) >= 5
    /\ Cardinality({i \in 1..Len(heap) : heap[i].title = outcome.title}) >= 2
    /\ outcome.rbt.node \notin {None, rbt.root}
    /\ outcome.avl.node \notin {None, avl.root}
    /\ outcome.bst.node # None

\* ----- C27 (SpecRBT)
\* `after` is `before` without one song of title k, the others in their order
RemovedOneOf(before, after, k) ==
    \E i \in 1..Len(before) :
        /\ heap[before[i]].title = k
        /\ after = SubSeq(before, 1, i - 1) \o SubSeq(before, i + 1, Len(before))

\* C27: RedBlackTree.delete with a probe equal to a stored entity returns and
\* leaves the in-order sequence it found without one entity equal to the
\* probe, the other entities in the same order
C27_RBTDeleteRemovesOne ==
    [][\A k \in 1..NTitles :
          (RBTDelete(k) /\ InRBT(k)) =>
              /\ outcome'.err = "none"
              /\ RemovedOneOf(rbt_inorder(rbt), rbt_inorder(rbt'), k)]_vars

\* a delete returned and left five entities of six, every title among them,
\* two of them with the title of the root, which has two children
C27_Witness ==
    /\ outcome = [op |-> "rbt.delete", err |-> "none"]
    /\ Len(rbt_inorder(rbt)) = 5
    /\ ninserts = 6
    /\ \A k \in 1..NTitles : InRBT(k)
    /\ rbt.n[rbt.root].left # NIL
    /\ rbt.n[rbt.root].right # NIL
    /\ Cardinality({i \in RBNodes : rbt.n[i].song = rbt.n[rbt.root].song}) >= 2

\* ----- C28 (SpecAVL)
\* C28: AVLTree.delete with a probe equal to a stored entity completes and
\* leaves the in-order sequence it found without one entity equal to the
\* probe
C28_AVLDeleteRemovesOne ==
    [][\A k \in 1..NTitles :
          (AVLDelete(k) /\ InAVL(k)) =>
              /\ outcome'.err = "none"
              /\ RemovedOneOf(avl_inorder(avl), avl_inorder(avl'), k)]_vars

\* ----- C29 (SpecSearch)
\* C29: binary_search and ternary_search, on every ascending list and every
\* target, reach a base case: no call is nested in a call with its own
\* arguments, also not after a recursive call with an upper bound of 0
C29_RecursionTerminates ==
    (outcome.op = "search" /\ outcome.method \in {2, 3}) => outcome.err # "RecursionError"

\* ----- C30 (SpecAVL)
\* C30: after any AVLTree.insert and AVLTree.delete calls AVLTree.size is the
\* number of nodes reachable from the root
C30_SizeIsNodeCount == avl.size = Cardinality(AVLNodes)

\* ----- C26 (SpecSave)
\* C26: after save_playlists and then load_playlists every restored Song has
\* the key "title", whatever key it had when it was saved, and the sorted
\* list and the three trees of the loaded playlist are in ascending order of
\* title
C26_LoadResetsKey ==
    (outcome.op = "load_playlists" /\ outcome.err = "none") =>
        /\ \A i \in 1..Len(heap) : heap[i].key = "title"
        /\ NonDecreasing(TitleSeq(heap, songs))
        /\ NonDecreasing(TitleSeq(heap, bst_inorder(bst)))
        /\ NonDecreasing(TitleSeq(heap, rbt_inorder(rbt)))
        /\ NonDecreasing(TitleSeq(heap, avl_inorder(avl)))

====
